---- MODULE Spec2Model ----
(***************************************************************************)
(* paperclip: peer-to-peer clipboard synchronisation daemon.               *)
(*                                                                         *)
(* State machine of peer.Node (src/peer/node.go), the clipboard adapter's  *)
(* digest bookkeeping (src/clipboard) and the trust store                  *)
(* (src/crypto/known_hosts.go).                                            *)
(*                                                                         *)
(* Time is kept as ages: every timestamp the code stores (seenHashes[h],   *)
(* pg.lastTry) is represented by the time elapsed since it was taken,      *)
(* because the code only ever evaluates time.Since(t) / now.Sub(t).        *)
(* Ages saturate at AgeCap, above every threshold the code compares with.  *)
(***************************************************************************)
EXTENDS Integers, Sequences, FiniteSets, TLC

(***************************************************************************)
(* Program constants                                                       *)
(***************************************************************************)
maxMessageSize == 10485760
headerSize == 5
maxBackoff == 30
initialBackoff == 1
TypeText == 1
TypeImage == 2
MagicNoise == 0
SeenWindow == 5
SweepAge == 30

(***************************************************************************)
(* Bounds of the model                                                     *)
(***************************************************************************)
TickStep == 16
MaxChanges == 2
MaxWire == 2
MaxConns == 3
MaxFails == 6
MaxInbound == 1
MaxPayload == 3
MaxSec == 1
MaxStream == 4
MaxBuf == 3
MaxWrites == 2
MaxReads == 4
MaxErrs == 1

AgeCap == SweepAge + 1

\* byte values of the payloads and payload lengths of the frame codec check:
\* the ends of the byte range, and lengths around every byte boundary of the
\* length field up to the limit
PayloadBytes == {0, 1, 255}
LengthSamples == {0, 1, 255, 256, 65535, 65536, maxMessageSize - 1, maxMessageSize}

Nodes == {"A", "B"}
ConnIds == 1..MaxConns
NoConn == 0
NoHash == <<>>

Min(a, b) == IF a < b THEN a ELSE b

Aged(a, d) == Min(a + d, AgeCap)

GhostAged(a, d) == Min(a + d, SeenWindow)

(***************************************************************************)
(* Payloads the user can put on a clipboard: the text "Aa", the image "BB". *)
(***************************************************************************)
UserContents ==
    { [type |-> TypeText,  data |-> <<65, 97>>],
      [type |-> TypeImage, data |-> <<66, 66>>] }

(***************************************************************************)
(* Digests                                                                 *)
(***************************************************************************)
\* clipboard.hashData: hex of SHA-256(data), a 64-character string.
\* SHA-256 is modelled as injective on the payloads of the model.
hashData(data) == <<"sha256", data>>

RECURSIVE polyHash(_, _)
polyHash(h, data) ==
    IF data = <<>> THEN h
    ELSE polyHash(h * 31 + Head(data), Tail(data))

\* peer.hashContent: "%016x" of h = h*31 + b over the bytes, a 16-character
\* string.  For the payload lengths of the model h stays far below 2^64, so
\* the uint64 wrap-around cannot occur.
hashContent(data) == <<"poly64", polyHash(0, data)>>

(***************************************************************************)
(* Frame codec                                                             *)
(***************************************************************************)
\* the length written low byte first
PutUint32LittleEndian(n) ==
    << n % 256, (n \div 256) % 256, (n \div 65536) % 256, (n \div 16777216) % 256 >>

\* binary.BigEndian.PutUint32 and binary.BigEndian.Uint32
PutUint32(n) ==
    << (n \div 16777216) % 256, (n \div 65536) % 256, (n \div 256) % 256, n % 256 >>

Uint32(b) == b[1] * 16777216 + b[2] * 65536 + b[3] * 256 + b[4]

\* broadcast, lines 561-564: msg = type | len(data) big endian | data
EncodeFrame(content) ==
    <<content.type>> \o PutUint32(Len(content.data)) \o content.data

\* readLoop, lines 464-492: header, length, payload, digest
FrameType(msg) == msg[1]

FrameLength(msg) == Uint32(SubSeq(msg, 2, headerSize))

FramePayload(msg) == SubSeq(msg, headerSize + 1, headerSize + FrameLength(msg))

VARIABLES
    osClip,      \* per node: content held by the OS clipboard
    lastHash,    \* per node: Clipboard.lastHash
    seenHashes,  \* per node: Node.seenHashes, digest -> age of the mark
    ppc,         \* per node: position of pollClipboard
    pcur,        \* per node: content read by the current poll tick
    rpc,         \* per (node, conn): position of readLoop
    rcur,        \* per (node, conn): content decoded by readLoop
    wire,        \* per (conn, node): frames written and not yet read
    pg,          \* per node: its peerGroup
    inbound,     \* per node: Node.inbound, remote address -> conn
    conn,        \* per conn id: the socket
    nchg,        \* history: number of user clipboard changes so far
    detected,    \* history: changes a poll tick found to be changed
    wlog,        \* history, per node: writes received by the adapter
    wrAge,       \* history, per node: digest -> age of the last adapter write
    wrote,       \* history, per node: the conn.Write calls of its last broadcast
    mpc,         \* per node: position of maintainPeerGroup
    race,        \* per node: dialAny's ctx, results channel, loop index, winner
    workers,     \* per node: the dial workers of the current race, one per address
    hosts,       \* per node: KnownHosts.hosts, normalized address -> host
    khFile,      \* per node: the lines of the known_hosts file
    now,         \* the wall clock, what time.Now() returns
    snap,        \* history, per node: KnownHosts.hosts when saveLocked last wrote the file
    fresh,       \* history, per node: KnownHosts.hosts is what LoadKnownHosts returned
    apc,         \* per node: position of acceptLoop
    acur,        \* per node: connection acceptLoop is working on
    refused,     \* history, per node: the Noise connection acceptLoop turned away last
    made,        \* history, per node: sockets created by the current dial race
    fails,       \* history, per node: fully failed dial races since the last success
    vpc,         \* per caller: position in KnownHosts.Verify
    varg,        \* per caller: arguments of the Verify call in progress
    vret,        \* history, per caller: the last Verify call and what it returned
    stopped,     \* per node: Node.stopChan is closed
    spc,         \* per node: position of cleanupSeenHashes
    net,         \* per node: whether its remote peer can be reached: "up", "down",
                 \* or "any" (every dial may succeed or fail)
    bpc,         \* per node: position of a broadcast that runs statement by statement
    pgmu,        \* per node: the task that holds peerGroup.mu, "-" if none
    inmu,        \* per node: the task that holds Node.inboundMu, "-" if none
    prefixed,    \* one plain inbound connection, byte by byte: the raw socket, the
                 \* PrefixedConn around it and what was read through it
    noise,       \* one Noise connection, message by message: both handshakes, the
                 \* raw socket in both directions and the two NoiseConn
    aerr,        \* history: the number of failed reads and of failed writes of the
                 \* clipboard adapters
    big          \* one content of any length on its way from a clipboard to the
                 \* reader of a peer: its kind and length, the header broadcast
                 \* wrote for it and what the reader made of the header

syncVars == <<osClip, lastHash, seenHashes, ppc, pcur, rpc, rcur, wire>>
meshVars == <<pg, inbound, conn>>
histVars == <<nchg, detected, wlog, wrAge, wrote>>
dialVars == <<mpc, race, workers>>
trustVars == <<hosts, khFile, now, snap, fresh>>
acceptVars == <<apc, acur, refused>>
callVars == <<vpc, varg, vret>>
lifeVars == <<stopped, spc, net>>
lockVars == <<bpc, pgmu, inmu>>
byteVars == <<prefixed, noise, aerr, big>>
ctlVars == <<dialVars, trustVars, acceptVars, made, fails, callVars, lifeVars, lockVars,
             byteVars>>
vars == <<syncVars, meshVars, histVars, ctlVars>>

(***************************************************************************)
(* Dedup cache                                                             *)
(***************************************************************************)
\* Node.isSeenRecently, lines 600-607
isSeenRecently(n, hash) ==
    IF hash \in DOMAIN seenHashes[n]
    THEN seenHashes[n][hash] < SeenWindow
    ELSE FALSE

\* Node.markSeen, lines 609-613: seenHashes[hash] = time.Now()
markSeen(n, hash) ==
    [seenHashes EXCEPT ![n] =
        [h \in (DOMAIN @) \cup {hash} |-> IF h = hash THEN 0 ELSE @[h]]]

\* Clipboard.HasChanged
HasChanged(n, currentHash) == currentHash # lastHash[n]

\* Clipboard.SetLastHash
SetLastHash(n, hash) == [lastHash EXCEPT ![n] = hash]

EmptyMap == [h \in {} |-> 0]

NoContent == [type |-> 0, data |-> <<>>, hash |-> NoHash, chg |-> 0, echo |-> FALSE]

ReaderKeys == Nodes \X ConnIds
WireKeys == ConnIds \X Nodes

\* the far end of conn c as seen from node n
PeerOf(n, c) == IF conn[c].dialer = n THEN conn[c].peer ELSE conn[c].dialer

\* history: the adapter of n received content.data from a reader less than
\* SeenWindow ago and still holds it
WrittenRecently(n, clip) ==
    /\ clip.by = "reader"
    /\ hashContent(clip.data) \in DOMAIN wrAge[n]
    /\ wrAge[n][hashContent(clip.data)] < SeenWindow

(***************************************************************************)
(* The user (environment) copies something new on node n.                  *)
(***************************************************************************)
UserSet(n, limit) ==
    /\ nchg < limit
    /\ \E uc \in UserContents :
          /\ uc.data # osClip[n].data
          /\ osClip' = [osClip EXCEPT ![n] =
                          [type |-> uc.type, data |-> uc.data,
                           chg |-> nchg + 1, by |-> "user"]]
    /\ nchg' = nchg + 1
    /\ UNCHANGED <<ctlVars, lastHash, seenHashes, ppc, pcur, rpc, rcur, wire,
                   meshVars, detected, wlog, wrAge, wrote>>

(***************************************************************************)
(* pollClipboard, lines 519-558                                            *)
(***************************************************************************)
\* line 530: content, err := n.clipboard.Read()   (Hash = hashData(Data))
PollRead(n) ==
    /\ ppc[n] = "tick"
    /\ pcur' = [pcur EXCEPT ![n] =
                  [type |-> osClip[n].type, data |-> osClip[n].data,
                   hash |-> hashData(osClip[n].data), chg |-> osClip[n].chg,
                   echo |-> WrittenRecently(n, osClip[n])]]
    /\ ppc' = [ppc EXCEPT ![n] = "changed"]
    /\ UNCHANGED <<ctlVars, osClip, lastHash, seenHashes, rpc, rcur, wire, meshVars, histVars>>

\* lines 535-537: if !HasChanged(content.Hash) { continue }
PollHasChanged(n) ==
    /\ ppc[n] = "changed"
    /\ IF HasChanged(n, pcur[n].hash)
       THEN /\ ppc' = [ppc EXCEPT ![n] = "seen"]
            /\ detected' = detected \cup {pcur[n].chg}
            /\ UNCHANGED pcur
       ELSE /\ ppc' = [ppc EXCEPT ![n] = "tick"]
            /\ pcur' = [pcur EXCEPT ![n] = NoContent]
            /\ UNCHANGED detected
    /\ UNCHANGED <<ctlVars, osClip, lastHash, seenHashes, rpc, rcur, wire, meshVars,
                   nchg, wlog, wrAge, wrote>>

\* lines 539-545: isSeenRecently, then either SetLastHash and continue, or
\* markSeen and SetLastHash.  One step: before SetLastHash the statements
\* touch only the hashData entry of seenHashes, which no other task of the
\* node reads or writes (the readers use hashContent digests).
PollDedup(n) ==
    /\ ppc[n] = "seen"
    /\ IF isSeenRecently(n, pcur[n].hash)
       THEN /\ ppc' = [ppc EXCEPT ![n] = "tick"]
            /\ pcur' = [pcur EXCEPT ![n] = NoContent]
            /\ UNCHANGED seenHashes
       ELSE /\ seenHashes' = markSeen(n, pcur[n].hash)
            /\ ppc' = [ppc EXCEPT ![n] = "bcast"]
            /\ UNCHANGED pcur
    /\ lastHash' = SetLastHash(n, pcur[n].hash)
    /\ UNCHANGED <<ctlVars, osClip, rpc, rcur, wire, meshVars, histVars>>

\* lines 530-533: n.clipboard.Read() returns an error: continue
PollReadFails(n) ==
    /\ ppc[n] = "tick"
    /\ aerr.read < MaxErrs
    /\ aerr' = [aerr EXCEPT !.read = @ + 1]
    /\ UNCHANGED <<syncVars, meshVars, histVars, dialVars, trustVars, acceptVars, made,
                   fails, callVars, lifeVars, lockVars, prefixed, noise, big>>

(***************************************************************************)
(* broadcast, lines 560-598                                                *)
(***************************************************************************)
\* results a conn.Write on c can have: TRUE = written, FALSE = error
WriteOutcomes(c) ==
    IF conn[c].st # "open" THEN {FALSE}
    ELSE IF conn[c].far = "gone" THEN {TRUE, FALSE}
    ELSE {TRUE}

InboundConns(n) == { inbound[n][a] : a \in DOMAIN inbound[n] }

\* lines 567-569: the peer group is written to if it is connected
GroupTargets(n) == IF pg[n].connected /\ pg[n].conn # NoConn THEN {pg[n].conn} ELSE {}

\* a broadcast that leaves the inbound connections out
TargetsGroupOnly(n) == GroupTargets(n)

\* lines 566-597: the connections broadcast calls Write on
Targets(n) == GroupTargets(n) \cup InboundConns(n)

\* a failed write that marks the group disconnected and keeps the transport
WriteFailedKeepsConn(g) == [g EXCEPT !.connected = FALSE]

\* lines 576-577: pg.connected = false, pg.conn = nil
WriteFailed(g) == [g EXCEPT !.connected = FALSE, !.conn = NoConn]

broadcast(n, content) ==
    LET msg == [bytes |-> EncodeFrame(content), chg |-> content.chg]
        c == pg[n].conn
        toGroup == GroupTargets(n) # {}
    IN  \E ok \in (IF toGroup THEN WriteOutcomes(c) ELSE {TRUE}) :
          LET failed == toGroup /\ ~ok
              sent == (IF toGroup /\ ok THEN {c} ELSE {})
                         \cup { i \in Targets(n) \ GroupTargets(n) :
                                  TRUE \in WriteOutcomes(i) }
          IN  /\ \A i \in sent :
                    PeerOf(n, i) \in Nodes => Len(wire[<<i, PeerOf(n, i)>>]) < MaxWire
              /\ wire' = [k \in WireKeys |->
                            IF k[1] \in sent /\ k[2] = PeerOf(n, k[1])
                            THEN Append(wire[k], msg) ELSE wire[k]]
              /\ pg' = IF failed THEN [pg EXCEPT ![n] = WriteFailed(@)] ELSE pg
              /\ conn' = IF failed THEN [conn EXCEPT ![c].st = "closed"] ELSE conn
              /\ wrote' = [wrote EXCEPT ![n] = { <<i, msg.bytes>> : i \in Targets(n) }]

\* line 555: n.broadcast(content)
PollBroadcast(n) ==
    /\ ppc[n] = "bcast"
    /\ bpc[n] = "idle"
    /\ broadcast(n, pcur[n])
    /\ ppc' = [ppc EXCEPT ![n] = "tick"]
    /\ pcur' = [pcur EXCEPT ![n] = NoContent]
    /\ UNCHANGED <<ctlVars, osClip, lastHash, seenHashes, rpc, rcur, inbound,
                   nchg, detected, wlog, wrAge>>

(***************************************************************************)
(* broadcast, lines 560-598, statement by statement: the locks it takes    *)
(* and the writes it makes while it holds them                             *)
(***************************************************************************)
BcOthers == <<osClip, lastHash, seenHashes, ppc, pcur, rpc, rcur, inbound, nchg, detected,
              wlog, wrAge, dialVars, trustVars, acceptVars, made, fails, callVars,
              lifeVars, byteVars>>

\* line 567: pg.mu.Lock()
BcGroupLock(n) ==
    /\ ppc[n] = "bcast"
    /\ bpc[n] = "idle"
    /\ pgmu[n] = "-"
    /\ pgmu' = [pgmu EXCEPT ![n] = "broadcast"]
    /\ bpc' = [bpc EXCEPT ![n] = "group"]
    /\ wrote' = [wrote EXCEPT ![n] = {}]
    /\ UNCHANGED <<BcOthers, wire, pg, conn, inmu>>

\* lines 568-570: if pg.connected && pg.conn != nil: SetWriteDeadline, and
\* pg.conn.Write(msg) is called
BcGroupWrite(n) ==
    /\ bpc[n] = "group"
    /\ bpc' = [bpc EXCEPT ![n] = IF GroupTargets(n) # {} THEN "gwrite" ELSE "gdone"]
    /\ UNCHANGED <<BcOthers, wire, pg, conn, wrote, pgmu, inmu>>

\* lines 570-581: pg.conn.Write(msg) returns, within its 5 s deadline
BcGroupWritten(n) ==
    /\ bpc[n] = "gwrite"
    /\ LET c == pg[n].conn
           msg == [bytes |-> EncodeFrame(pcur[n]), chg |-> pcur[n].chg]
           k == <<c, PeerOf(n, c)>>
       IN  \E ok \in WriteOutcomes(c) :
             /\ (ok /\ PeerOf(n, c) \in Nodes) => Len(wire[k]) < MaxWire
             /\ wire' = IF ok /\ PeerOf(n, c) \in Nodes
                        THEN [wire EXCEPT ![k] = Append(@, msg)] ELSE wire
             /\ pg' = IF ok THEN pg ELSE [pg EXCEPT ![n] = WriteFailed(@)]
             /\ conn' = IF ok THEN conn ELSE [conn EXCEPT ![c].st = "closed"]
             /\ wrote' = [wrote EXCEPT ![n] = @ \cup {<<c, msg.bytes>>}]
    /\ bpc' = [bpc EXCEPT ![n] = "gdone"]
    /\ UNCHANGED <<BcOthers, pgmu, inmu>>

\* line 583: pg.mu.Unlock()
BcGroupUnlock(n) ==
    /\ bpc[n] = "gdone"
    /\ pgmu' = [pgmu EXCEPT ![n] = "-"]
    /\ bpc' = [bpc EXCEPT ![n] = "inbound"]
    /\ UNCHANGED <<BcOthers, wire, pg, conn, wrote, inmu>>

\* lines 587-590: n.inboundMu.RLock(), and the first conn.Write(msg) of the
\* loop over the inbound map is called
BcInboundLock(n) ==
    /\ bpc[n] = "inbound"
    /\ inmu[n] = "-"
    /\ inmu' = [inmu EXCEPT ![n] = "broadcast"]
    /\ bpc' = [bpc EXCEPT ![n] = IF InboundConns(n) # {} THEN "iwrite" ELSE "idone"]
    /\ UNCHANGED <<BcOthers, wire, pg, conn, wrote, pgmu>>

\* lines 588-596: the writes of the loop over the inbound map return
BcInboundWritten(n) ==
    /\ bpc[n] = "iwrite"
    /\ LET msg == [bytes |-> EncodeFrame(pcur[n]), chg |-> pcur[n].chg]
           sent == { i \in InboundConns(n) : TRUE \in WriteOutcomes(i) }
       IN  /\ \A i \in sent :
                 PeerOf(n, i) \in Nodes => Len(wire[<<i, PeerOf(n, i)>>]) < MaxWire
           /\ wire' = [k \in WireKeys |->
                         IF k[1] \in sent /\ k[2] = PeerOf(n, k[1])
                         THEN Append(wire[k], msg) ELSE wire[k]]
           /\ wrote' = [wrote EXCEPT ![n] =
                          @ \cup { <<i, msg.bytes>> : i \in InboundConns(n) }]
    /\ bpc' = [bpc EXCEPT ![n] = "idone"]
    /\ UNCHANGED <<BcOthers, pg, conn, pgmu, inmu>>

\* line 597: n.inboundMu.RUnlock(); broadcast returns to pollClipboard
BcInboundUnlock(n) ==
    /\ bpc[n] = "idone"
    /\ inmu' = [inmu EXCEPT ![n] = "-"]
    /\ bpc' = [bpc EXCEPT ![n] = "idle"]
    /\ ppc' = [ppc EXCEPT ![n] = "tick"]
    /\ pcur' = [pcur EXCEPT ![n] = NoContent]
    /\ UNCHANGED <<osClip, lastHash, seenHashes, rpc, rcur, inbound, nchg, detected,
                   wlog, wrAge, dialVars, trustVars, acceptVars, made, fails, callVars,
                   lifeVars, byteVars, wire, pg, conn, wrote, pgmu>>

BroadcastStep(n) ==
    \/ BcGroupLock(n)
    \/ BcGroupWrite(n)
    \/ BcGroupWritten(n)
    \/ BcGroupUnlock(n)
    \/ BcInboundLock(n)
    \/ BcInboundWritten(n)
    \/ BcInboundUnlock(n)

(***************************************************************************)
(* readLoop, lines 454-517                                                 *)
(***************************************************************************)
\* a reader that accepts every length
TooLargeNever(length) == FALSE

\* line 477: if length > maxMessageSize
TooLarge(length) == length > maxMessageSize

\* what conn.Read yields on c when the bytes b are next on the wire: a
\* PrefixedConn hands its prefix back first (PrefixedConn.Read)
Stream(c, b) == conn[c].prefix \o b

\* lines 464-500: read one frame, build the content, echo prevention check.
\* The header is read first; a length above the limit ends readLoop with
\* the payload still unread, and so does a payload that stays incomplete.
ReaderRecv(n, c) ==
    /\ rpc[<<n, c>>] = "read"
    /\ wire[<<c, n>>] # <<>>
    /\ LET msg == Head(wire[<<c, n>>])
           bytes == Stream(c, msg.bytes)
           length == FrameLength(bytes)
           have == Min(length, Len(bytes) - headerSize)
           data == SubSeq(bytes, headerSize + 1, headerSize + have)
           rest == SubSeq(bytes, headerSize + have + 1, Len(bytes))
           content == [type |-> FrameType(bytes), data |-> data,
                       hash |-> hashContent(data), chg |-> msg.chg, echo |-> FALSE]
       IN  /\ Len(bytes) >= headerSize
           /\ IF TooLarge(length)
              THEN /\ rpc' = [rpc EXCEPT ![<<n, c>>] = "exit"]
                   /\ wire' = [wire EXCEPT ![<<c, n>>] =
                                 <<[msg EXCEPT !.bytes =
                                      SubSeq(bytes, headerSize + 1, Len(bytes))]>>
                                 \o Tail(@)]
                   /\ UNCHANGED rcur
              ELSE /\ wire' = [wire EXCEPT ![<<c, n>>] =
                                 IF rest = <<>> THEN Tail(@)
                                 ELSE <<[msg EXCEPT !.bytes = rest]>> \o Tail(@)]
                   /\ IF have < length
                      THEN /\ rpc' = [rpc EXCEPT ![<<n, c>>] = "exit"]
                           /\ UNCHANGED rcur
                      ELSE IF isSeenRecently(n, content.hash)
                      THEN UNCHANGED <<rpc, rcur>>
                      ELSE /\ rpc' = [rpc EXCEPT ![<<n, c>>] = "mark"]
                           /\ rcur' = [rcur EXCEPT ![<<n, c>>] = content]
    /\ conn' = [conn EXCEPT ![c].prefix = <<>>]
    /\ UNCHANGED <<ctlVars, osClip, lastHash, seenHashes, ppc, pcur, pg, inbound, histVars>>

\* line 502: n.markSeen(content.Hash)
ReaderMark(n, c) ==
    /\ rpc[<<n, c>>] = "mark"
    /\ seenHashes' = markSeen(n, rcur[<<n, c>>].hash)
    /\ rpc' = [rpc EXCEPT ![<<n, c>>] = "write"]
    /\ UNCHANGED <<ctlVars, osClip, lastHash, ppc, pcur, rcur, wire, meshVars, histVars>>

\* Clipboard.Write: writeImage for TypeImage, writeText otherwise, then
\* lastHash = content.Hash
ClipboardWrite(n, content) ==
    /\ osClip' = [osClip EXCEPT ![n] =
                    [type |-> IF content.type = TypeImage THEN TypeImage ELSE TypeText,
                     data |-> content.data, chg |-> content.chg,
                     by |-> "reader"]]
    /\ lastHash' = [lastHash EXCEPT ![n] = content.hash]

\* line 504: n.clipboard.Write(content)
ReaderWrite(n, c) ==
    /\ rpc[<<n, c>>] = "write"
    /\ LET content == rcur[<<n, c>>]
           h == content.hash
       IN  /\ ClipboardWrite(n, content)
           /\ wlog' = [wlog EXCEPT ![n] =
                         @ \cup {[type |-> content.type, data |-> content.data,
                                  chg |-> content.chg]}]
           /\ wrAge' = [wrAge EXCEPT ![n] =
                          [d \in (DOMAIN @) \cup {h} |-> IF d = h THEN 0 ELSE @[d]]]
    /\ rpc' = [rpc EXCEPT ![<<n, c>>] = "read"]
    /\ rcur' = [rcur EXCEPT ![<<n, c>>] = NoContent]
    /\ UNCHANGED <<ctlVars, seenHashes, ppc, pcur, wire, meshVars, nchg, detected,
                   wrote>>

\* a reader that returns when the adapter fails
ReaderWriteFailsReturns(n, c) ==
    /\ rpc[<<n, c>>] = "write"
    /\ aerr.write < MaxErrs
    /\ aerr' = [aerr EXCEPT !.write = @ + 1]
    /\ rpc' = [rpc EXCEPT ![<<n, c>>] = "exit"]
    /\ rcur' = [rcur EXCEPT ![<<n, c>>] = NoContent]
    /\ UNCHANGED <<osClip, lastHash, seenHashes, ppc, pcur, wire, meshVars, histVars,
                   dialVars, trustVars, acceptVars, made, fails, callVars, lifeVars,
                   lockVars, prefixed, noise, big>>

\* lines 504-507: n.clipboard.Write(content) returns an error (the clipboard
\* and Clipboard.lastHash are as before): continue
ReaderWriteFails(n, c) ==
    /\ rpc[<<n, c>>] = "write"
    /\ aerr.write < MaxErrs
    /\ aerr' = [aerr EXCEPT !.write = @ + 1]
    /\ rpc' = [rpc EXCEPT ![<<n, c>>] = "read"]
    /\ rcur' = [rcur EXCEPT ![<<n, c>>] = NoContent]
    /\ UNCHANGED <<osClip, lastHash, seenHashes, ppc, pcur, wire, meshVars, histVars,
                   dialVars, trustVars, acceptVars, made, fails, callVars, lifeVars,
                   lockVars, prefixed, noise, big>>

(***************************************************************************)
(* cleanupSeenHashes, lines 626-633                                        *)
(***************************************************************************)
\* a sweeper with the window of the query: it removes what is SeenWindow old
cleanupSeenHashesEarly(n) ==
    /\ spc[n] = "run"
    /\ \E h \in DOMAIN seenHashes[n] : seenHashes[n][h] > SeenWindow - 1
    /\ seenHashes' = [seenHashes EXCEPT ![n] =
                        [h \in { x \in DOMAIN @ : ~(@[x] > SeenWindow - 1) } |-> @[h]]]
    /\ UNCHANGED <<ctlVars, osClip, lastHash, ppc, pcur, rpc, rcur, wire, meshVars, histVars>>

cleanupSeenHashes(n) ==
    /\ spc[n] = "run"
    /\ \E h \in DOMAIN seenHashes[n] : seenHashes[n][h] > SweepAge
    /\ seenHashes' = [seenHashes EXCEPT ![n] =
                        [h \in { x \in DOMAIN @ : ~(@[x] > SweepAge) } |-> @[h]]]
    /\ UNCHANGED <<ctlVars, osClip, lastHash, ppc, pcur, rpc, rcur, wire, meshVars, histVars>>

(***************************************************************************)
(* Passage of d seconds.  Time passes while every task waits (the pollers  *)
(* for their ticker, the readers for bytes, the managers in their sleep,   *)
(* the acceptors in Accept): the statements of one tick or one frame, the  *)
(* delivery of a frame and a dial race take no time, the poll interval is  *)
(* arbitrary.                                                              *)
(***************************************************************************)
Tick(d) ==
    /\ \A n \in Nodes : ppc[n] = "tick"
    /\ \A k \in ReaderKeys : rpc[k] \in {"none", "read"}
    /\ \A k \in WireKeys : wire[k] = <<>>
    /\ \A n \in Nodes : mpc[n] = "loop" /\ apc[n] = "accept"
    /\ seenHashes' = [n \in Nodes |->
                        [h \in DOMAIN seenHashes[n] |-> Aged(seenHashes[n][h], d)]]
    /\ pg' = [n \in Nodes |-> [pg[n] EXCEPT !.sinceTry = Aged(@, d)]]
    /\ wrAge' = [n \in Nodes |->
                   [h \in DOMAIN wrAge[n] |-> GhostAged(wrAge[n][h], d)]]
    /\ <<seenHashes', pg', wrAge'>> # <<seenHashes, pg, wrAge>>
    /\ UNCHANGED <<ctlVars, osClip, lastHash, ppc, pcur, rpc, rcur, wire, inbound, conn,
                   nchg, detected, wlog, wrote>>

(***************************************************************************)
(* Sockets.  A closed socket that no task, map or channel of a node refers *)
(* to any more is forgotten, and its record is free for a new connection.  *)
(* rej is history: the peer key presented on the socket did not match the  *)
(* pinned one.  first is the byte slice magic that acceptLoop read off the *)
(* raw socket (empty while nothing was read), via is what the node reads   *)
(* the socket through: the raw socket, a PrefixedConn that hands the first *)
(* byte back, or a NoiseConn; prefix is PrefixedConn.prefix, the bytes     *)
(* still to be handed back.  verified is history: Verify returned nil for  *)
(* the key the peer presented on the socket.                               *)
(***************************************************************************)
NoSocket == [st |-> "none", dialer |-> "-", peer |-> "-", far |-> "up", raddr |-> <<>>,
             rej |-> FALSE, first |-> <<>>, prefix |-> <<>>, via |-> "raw",
                             verified |-> FALSE]

NoResult == [conn |-> NoConn, addr |-> <<>>, encrypted |-> FALSE, err |-> FALSE]
NoWorker == [pc |-> "done", conn |-> NoConn, key |-> "-"]
NoAccept == [conn |-> NoConn, addr |-> <<>>, key |-> "-"]
\* got is history: the results the loop of dialAny has received, in order
NoRace == [ctx |-> "open", results |-> <<>>, i |-> 0, winner |-> NoResult, got |-> <<>>]

Referenced(c) ==
    \E n \in Nodes :
        \/ pg[n].conn = c
        \/ c \in InboundConns(n)
        \/ rpc[<<n, c>>] # "none"
        \/ c \in made[n]
        \/ acur[n].conn = c
        \/ refused[n] = c
        \/ \E k \in DOMAIN workers[n] : workers[n][k].conn = c
        \/ \E i \in DOMAIN race[n].results : race[n].results[i].conn = c
        \/ race[n].winner.conn = c

RefSet == { c \in ConnIds : Referenced(c) }

Forget(cn, refs) ==
    [c \in ConnIds |-> IF cn[c].st = "closed" /\ c \notin refs THEN NoSocket ELSE cn[c]]

Close(cn, c) == [cn EXCEPT ![c].st = "closed"]

FreeConns == { c \in ConnIds : conn[c].st = "none" }

NewConn == CHOOSE c \in FreeConns : \A d \in FreeConns : c <= d

\* the peer of n goes away: no dial reaches it, and the sockets n holds to
\* it lose their far end
PeerDown(n) ==
    /\ net[n] = "any"
    /\ net' = [net EXCEPT ![n] = "down"]
    /\ conn' = [c \in ConnIds |->
                  IF conn[c].dialer = n /\ conn[c].st = "open"
                  THEN [conn[c] EXCEPT !.far = "gone"] ELSE conn[c]]
    /\ UNCHANGED <<syncVars, pg, inbound, histVars, dialVars, trustVars, acceptVars,
                   made, fails, callVars, lockVars, byteVars, stopped, spc>>

\* the peer of n is back and stays: every dial reaches it
PeerUp(n) ==
    /\ net[n] = "down"
    /\ net' = [net EXCEPT ![n] = "up"]
    /\ UNCHANGED <<syncVars, meshVars, histVars, dialVars, trustVars, acceptVars,
                   made, fails, callVars, lockVars, byteVars, stopped, spc>>

\* the remote end of an open socket goes away
FarGone(c) ==
    /\ conn[c].st = "open"
    /\ conn[c].far = "up"
    /\ conn' = [conn EXCEPT ![c].far = "gone"]
    /\ UNCHANGED <<syncVars, pg, inbound, histVars, ctlVars>>

(***************************************************************************)
(* KnownHosts, src/crypto/known_hosts.go                                   *)
(***************************************************************************)
Keys == {"K1", "K2"}

IsSpace(ch) == ch \in {9, 10, 11, 12, 13, 32}

RECURSIVE TrimLeft(_)
TrimLeft(s) ==
    IF s # <<>> /\ IsSpace(Head(s)) THEN TrimLeft(Tail(s)) ELSE s

RECURSIVE TrimRight(_)
TrimRight(s) ==
    IF s # <<>> /\ IsSpace(s[Len(s)]) THEN TrimRight(SubSeq(s, 1, Len(s) - 1)) ELSE s

TrimSpace(s) == TrimRight(TrimLeft(s))

ToLower(s) == [i \in 1..Len(s) |-> IF s[i] >= 65 /\ s[i] <= 90 THEN s[i] + 32 ELSE s[i]]

normalizeAddr(addr) == ToLower(TrimSpace(addr))

\* lines 153-157 and 170-176 of Verify: the lookup under the read lock and
\* the comparison
Lookup(n, addr, pubKey) ==
    IF normalizeAddr(addr) \notin DOMAIN hosts[n] THEN "first"
    ELSE IF hosts[n][normalizeAddr(addr)].PublicKey = pubKey THEN "ok"
    ELSE "mismatch"

\* history: the key presented for addr differs from the one pinned for it
Mismatch(n, addr, pubKey) ==
    /\ normalizeAddr(addr) \in DOMAIN hosts[n]
    /\ hosts[n][normalizeAddr(addr)].PublicKey # pubKey

\* time.Time: whole seconds and the nanoseconds within the second
NsecSamples == {0, 500000000}
Instants == [sec : 0..MaxSec, nsec : NsecSamples]
StartTime == [sec |-> 0, nsec |-> 0]

Before(t, u) == t.sec < u.sec \/ (t.sec = u.sec /\ t.nsec < u.nsec)

\* Time.Format(time.RFC3339): the layout has no fractional seconds.  The text
\* is abbreviated to "T", the digit of the second and "Z"
FormatRFC3339(t) == <<84, 48 + t.sec, 90>>

IsRFC3339(f) == Len(f) = 3 /\ f[1] = 84 /\ f[2] >= 48 /\ f[2] <= 57 /\ f[3] = 90

\* time.Parse(time.RFC3339, f) of a text that IsRFC3339
ParseRFC3339(f) == [sec |-> f[2] - 48, nsec |-> 0]

\* base64.StdEncoding of the 32-byte keys, abbreviated to two characters
EncodeToString(k) == IF k = "K1" THEN <<75, 49>> ELSE <<75, 50>>

\* base64 DecodeString followed by the length check of line 91; "-" is an error
DecodeString(f) ==
    IF \E k \in Keys : EncodeToString(k) = f
    THEN CHOOSE k \in Keys : EncodeToString(k) = f
    ELSE "-"

\* strings.Join
RECURSIVE Join(_, _)
Join(parts, sep) ==
    IF parts = <<>> THEN <<>>
    ELSE IF Len(parts) = 1 THEN parts[1]
    ELSE parts[1] \o sep \o Join(Tail(parts), sep)

\* the length of the longest prefix of s without a character of the set stop
RECURSIVE Span(_, _)
Span(s, stop) ==
    IF s = <<>> \/ Head(s) \in stop THEN 0 ELSE 1 + Span(Tail(s), stop)

\* strings.Fields: the maximal runs of non-space characters
RECURSIVE Fields(_)
Fields(s) ==
    LET t == TrimLeft(s)
        k == Span(t, {9, 10, 11, 12, 13, 32})
    IN  IF t = <<>> THEN <<>>
        ELSE <<SubSeq(t, 1, k)>> \o Fields(SubSeq(t, k + 1, Len(t)))

\* strings.Split(s, "|")
RECURSIVE Split(_)
Split(s) ==
    LET k == Span(s, {124})
    IN  IF k = Len(s) THEN <<s>>
        ELSE <<SubSeq(s, 1, k)>> \o Split(SubSeq(s, k + 2, Len(s)))

NoHost == [Addresses |-> <<>>, PublicKey |-> "-", FirstSeen |-> StartTime, Comment |-> <<>>]

\* parseLine, lines 77-117, at time t; NoHost is the error return
parseLine(line, t) ==
    LET fields == Fields(line)
        timed == Len(fields) >= 3 /\ IsRFC3339(fields[3])
    IN  IF Len(fields) < 2 THEN NoHost
        ELSE IF DecodeString(fields[2]) = "-" THEN NoHost
        ELSE [Addresses |-> Split(fields[1]),
              PublicKey |-> DecodeString(fields[2]),
              FirstSeen |-> IF timed THEN ParseRFC3339(fields[3]) ELSE t,
              Comment |-> IF Len(fields) >= 4
                          THEN Join(SubSeq(fields, 4, Len(fields)), <<32>>)
                          ELSE IF Len(fields) >= 3 /\ ~timed
                          THEN Join(SubSeq(fields, 3, Len(fields)), <<32>>)
                          ELSE <<>>]

\* lines 67-69 and 146-148: map all addresses to this host
MapAll(m, host) ==
    LET na == { normalizeAddr(host.Addresses[i]) : i \in DOMAIN host.Addresses }
    IN  [a \in (DOMAIN m) \cup na |-> IF a \in na THEN host ELSE m[a]]

\* LoadKnownHosts, lines 49-70: the scanner loop over the lines in order
RECURSIVE ScanLines(_, _, _)
ScanLines(lines, m, t) ==
    IF lines = <<>> THEN m
    ELSE LET line == TrimSpace(Head(lines))
         IN  IF line = <<>> \/ Head(line) = 35 \/ parseLine(line, t) = NoHost
             THEN ScanLines(Tail(lines), m, t)
             ELSE ScanLines(Tail(lines), MapAll(m, parseLine(line, t)), t)

Orders(S) ==
    { o \in [1..Cardinality(S) -> S] : \A i, j \in DOMAIN o : o[i] = o[j] => i = j }

\* LoadKnownHosts at time t.  saveLocked writes the records in the iteration
\* order of a Go map, so the order of the lines is any order
LoadKnownHosts(file, t) == { ScanLines(o, EmptyMap, t) : o \in Orders(file) }

\* the map after Add(addrs, pubKey) inserted the new host
AddHost(n, addrs, pubKey) ==
    MapAll(hosts[n], [Addresses |-> addrs, PublicKey |-> pubKey,
                      FirstSeen |-> now, Comment |-> <<>>])

\* lines 203-211: the line of one host
FormatLine(host) ==
    Join(<<Join(host.Addresses, <<124>>), EncodeToString(host.PublicKey),
           FormatRFC3339(host.FirstSeen)>>
         \o (IF host.Comment # <<>> THEN <<host.Comment>> ELSE <<>>), <<32>>)

\* lines 199-200: the two comment lines and the empty line at the top
Header == { <<35, 32, 80>>, <<35, 32, 70>>, <<>> }

\* saveLocked: the header and one line for each deduplicated host of the map
saveLocked(m) == Header \cup { FormatLine(m[a]) : a \in DOMAIN m }

NoSnap == [ok |-> FALSE, m |-> EmptyMap]

\* Add: insert, then saveLocked; saved = os.WriteFile succeeded
Add(n, addrs, pubKey, saved) ==
    /\ hosts' = [hosts EXCEPT ![n] = AddHost(n, addrs, pubKey)]
    /\ khFile' = IF saved
                 THEN [khFile EXCEPT ![n] = saveLocked(AddHost(n, addrs, pubKey))]
                 ELSE khFile
    /\ snap' = IF saved
               THEN [snap EXCEPT ![n] = [ok |-> TRUE, m |-> AddHost(n, addrs, pubKey)]]
               ELSE snap
    /\ fresh' = [fresh EXCEPT ![n] = FALSE]
    /\ UNCHANGED now

(***************************************************************************)
(* maintainPeerGroup, lines 290-349, and dialAny, lines 353-435            *)
(***************************************************************************)
AllDone(n) == \A k \in DOMAIN workers[n] : workers[n][k].pc = "done"

\* a manager that dials at every turn of its loop
BackoffElapsedAlways(g) == TRUE

\* line 308, negated: time.Since(pg.lastTry) < pg.backoff does not hold
BackoffElapsed(g) == ~(g.sinceTry < g.backoff)

\* lines 300-316 and 365-411: not connected, backoff elapsed: lastTry = now,
\* dialAny makes ctx and results and starts one worker per address
MgrDial(n) ==
    /\ mpc[n] = "loop"
    /\ ~stopped[n]
    /\ pg[n].addrs # <<>>
    /\ ~pg[n].connected
    /\ BackoffElapsed(pg[n])
    /\ pg' = [pg EXCEPT ![n].sinceTry = 0]
    /\ mpc' = [mpc EXCEPT ![n] = "collect"]
    /\ race' = [race EXCEPT ![n] = NoRace]
    /\ workers' = [workers EXCEPT ![n] =
                     [k \in DOMAIN pg[n].addrs |->
                        [pc |-> "dial", conn |-> NoConn, key |-> "-"]]]
    /\ made' = [made EXCEPT ![n] = {}]
    /\ UNCHANGED <<syncVars, inbound, conn, histVars, trustVars, acceptVars,
                   fails, callVars, lockVars, byteVars, lifeVars>>

Send(n, r) == [race EXCEPT ![n].results = Append(@, r)]

Failure(a) == [conn |-> NoConn, addr |-> a, encrypted |-> FALSE, err |-> TRUE]
Success(c, a, encrypted) == [conn |-> c, addr |-> a, encrypted |-> encrypted, err |-> FALSE]

\* line 372: whether net.DialTimeout to the peer of n yields a connection
DialOutcomes(n) == IF net[n] = "any" THEN BOOLEAN ELSE {net[n] = "up"}

\* lines 372-386 and 407-409: DialTimeout returns, then the select on ctx
WDial(n, k) ==
    /\ mpc[n] = "collect"
    /\ workers[n][k].pc = "dial"
    /\ UNCHANGED <<syncVars, pg, inbound, histVars, mpc, trustVars, acceptVars,
                   fails, callVars, lockVars, byteVars, lifeVars>>
    /\ LET a == pg[n].addrs[k]
       IN  \E dialed \in DialOutcomes(n) :
             /\ dialed => FreeConns # {}
             /\ LET c == IF dialed THEN NewConn ELSE NoConn
                    sock == [st |-> IF race[n].ctx = "closed" THEN "closed" ELSE "open",
                             dialer |-> n, peer |-> "env", far |-> "up", raddr |-> <<>>,
                             rej |-> FALSE, first |-> <<>>, prefix |-> <<>>, via |-> "raw",
                             verified |-> FALSE]
                IN  /\ made' = IF dialed THEN [made EXCEPT ![n] = @ \cup {c}] ELSE made
                    /\ IF race[n].ctx = "closed"
                       THEN /\ workers' = [workers EXCEPT ![n][k] = NoWorker]
                            /\ UNCHANGED race
                       ELSE IF ~dialed
                       THEN /\ workers' = [workers EXCEPT ![n][k] = NoWorker]
                            /\ race' = Send(n, Failure(a))
                       ELSE IF a \in pg[n].noiseAddrs
                       THEN /\ workers' = [workers EXCEPT ![n][k] =
                                             [pc |-> "handshake", conn |-> c, key |-> "-"]]
                            /\ UNCHANGED race
                       ELSE /\ workers' = [workers EXCEPT ![n][k] = NoWorker]
                            /\ race' = Send(n, Success(c, a, FALSE))
                    /\ conn' = IF dialed THEN [conn EXCEPT ![c] = sock] ELSE conn

\* lines 390-395: HandshakeInitiator returns an error or the peer's key
WHandshake(n, k) ==
    /\ workers[n][k].pc = "handshake"
    /\ UNCHANGED <<syncVars, pg, inbound, histVars, mpc, trustVars, acceptVars,
                   made, fails, callVars, lockVars, byteVars, lifeVars>>
    /\ LET a == pg[n].addrs[k]
           c == workers[n][k].conn
       IN  \/ /\ workers' = [workers EXCEPT ![n][k] = NoWorker]
              /\ race' = Send(n, Failure(a))
              /\ conn' = Close(conn, c)
           \/ \E peerKey \in Keys :
                /\ workers' = [workers EXCEPT ![n][k].pc = "verify", ![n][k].key = peerKey]
                /\ conn' = [conn EXCEPT ![c].via = "noise"]
                /\ UNCHANGED race

\* a caller that ignores the mismatch
OnMismatchKeep(v) == "keep"

\* what the caller of Verify does with a mismatch: line 400 and line 246
OnMismatch(v) == IF v = "mismatch" THEN "close" ELSE "keep"

\* lines 399-406, Verify up to its decision: a known key that matches, a
\* mismatch, or first contact (Add follows)
WVerify(n, k) ==
    /\ workers[n][k].pc = "verify"
    /\ UNCHANGED <<syncVars, pg, inbound, histVars, mpc, trustVars, acceptVars,
                   made, fails, callVars, lockVars, byteVars, lifeVars>>
    /\ LET a == pg[n].addrs[k]
           c == workers[n][k].conn
           v == Lookup(n, a, workers[n][k].key)
           flagged == [conn EXCEPT ![c].rej = Mismatch(n, a, workers[n][k].key),
                                   ![c].verified = (v = "ok")]
       IN  /\ workers' = [workers EXCEPT ![n][k] =
                            IF v = "first" THEN [@ EXCEPT !.pc = "add"] ELSE NoWorker]
           /\ race' = IF v = "first" THEN race
                      ELSE IF OnMismatch(v) = "close" THEN Send(n, Failure(a))
                      ELSE Send(n, Success(c, a, TRUE))
           /\ conn' = IF OnMismatch(v) = "close" THEN Close(flagged, c) ELSE flagged

\* lines 399-406, Verify on first contact: Add, whose error fails the dial
WAdd(n, k) ==
    /\ workers[n][k].pc = "add"
    /\ UNCHANGED <<syncVars, pg, inbound, histVars, mpc, acceptVars,
                   made, fails, callVars, lockVars, byteVars, lifeVars>>
    /\ LET a == pg[n].addrs[k]
           c == workers[n][k].conn
       IN  \E saved \in BOOLEAN :
             /\ Add(n, <<a>>, workers[n][k].key, saved)
             /\ workers' = [workers EXCEPT ![n][k] = NoWorker]
             /\ race' = IF saved THEN Send(n, Success(c, a, TRUE)) ELSE Send(n, Failure(a))
             /\ conn' = IF saved THEN [conn EXCEPT ![c].verified = TRUE]
                        ELSE Close(conn, c)

\* a collector that closes no extra connection
IsExtraNever(winner, r) == FALSE

\* line 425: a successful result that is not the winner
IsExtra(winner, r) == r.conn # NoConn /\ winner.conn # NoConn

\* a loop in which every success replaces the winner
WinsLast(winner, r) == ~r.err /\ r.conn # NoConn

\* lines 418-422: a result without error, with a connection, and no winner yet
Wins(winner, r) == ~r.err /\ r.conn # NoConn /\ winner.conn = NoConn

\* lines 416-428: one iteration of the result loop
Collect(n) ==
    /\ mpc[n] = "collect"
    /\ race[n].i < Len(pg[n].addrs)
    /\ race[n].results # <<>>
    /\ UNCHANGED <<syncVars, pg, inbound, histVars, mpc, workers, trustVars,
                   acceptVars, made, fails, callVars, lockVars, byteVars, lifeVars>>
    /\ LET r == Head(race[n].results)
           wins == Wins(race[n].winner, r)
       IN  /\ race' = [race EXCEPT ![n].results = Tail(@),
                                   ![n].got = Append(@, r),
                                   ![n].i = @ + 1,
                                   ![n].winner = IF wins THEN r ELSE @,
                                   ![n].ctx = IF wins THEN "closed" ELSE @]
           /\ conn' = IF ~r.err /\ ~wins /\ IsExtra(race[n].winner, r)
                      THEN Close(conn, r.conn)
                      ELSE conn

\* doubling without the cap
NextBackoffNoCap(backoff) == backoff * 2

\* line 322
NextBackoff(backoff) == Min(backoff * 2, maxBackoff)

\* lines 434 and 319-347: dialAny returns; without a connection the backoff
\* doubles, with one the group is connected and handleOutbound starts
DialReturn(n) ==
    /\ mpc[n] = "collect"
    /\ race[n].i = Len(pg[n].addrs)
    /\ LET w == race[n].winner
       IN  IF w.conn = NoConn
           THEN /\ pg' = [pg EXCEPT ![n].backoff = NextBackoff(@)]
                /\ fails' = [fails EXCEPT ![n] = Min(@ + 1, MaxFails)]
                /\ UNCHANGED rpc
           ELSE /\ pg' = [pg EXCEPT ![n].conn = w.conn,
                                    ![n].connected = TRUE,
                                    ![n].activeAddr = w.addr,
                                    ![n].encrypted = w.encrypted,
                                    ![n].backoff = initialBackoff]
                /\ fails' = [fails EXCEPT ![n] = 0]
                /\ rpc' = [rpc EXCEPT ![<<n, w.conn>>] = "read"]
    /\ mpc' = [mpc EXCEPT ![n] = "loop"]
    /\ race' = [race EXCEPT ![n] = NoRace]
    /\ workers' = [workers EXCEPT ![n] = <<>>]
    /\ made' = [made EXCEPT ![n] = {}]
    /\ UNCHANGED <<osClip, lastHash, seenHashes, ppc, pcur, rcur, wire, inbound,
                   histVars, trustVars, acceptVars, callVars, lockVars, byteVars, lifeVars>>
    /\ conn' = Forget(conn, RefSet')

\* readLoop of n on c returns: it left its loop over a frame (lines 477-485),
\* its read of a header fails (lines 466-473: the socket was closed, the
\* peer went away, or nothing arrived within the read deadline), or it finds
\* stopChan closed at the top of its loop (lines 456-460)
ReaderReturns(n, c) ==
    \/ rpc[<<n, c>>] = "exit"
    \/ rpc[<<n, c>>] = "read" /\ wire[<<c, n>>] = <<>>
    \/ rpc[<<n, c>>] = "read" /\ stopped[n]

(***************************************************************************)
(* handleOutbound, lines 437-452: readLoop returned (the socket was        *)
(* closed, the peer went away, or nothing arrived within the read          *)
(* deadline); the deferred function runs                                   *)
(***************************************************************************)
handleOutboundExit(n, c) ==
    /\ ReaderReturns(n, c)
    /\ pgmu[n] = "-"
    /\ conn[c].dialer = n
    /\ wire' = [wire EXCEPT ![<<c, n>>] = <<>>]
    /\ pg' = [pg EXCEPT ![n].connected = FALSE, ![n].conn = NoConn,
                        ![n].activeAddr = <<>>]
    /\ rpc' = [rpc EXCEPT ![<<n, c>>] = "none"]
    /\ UNCHANGED <<osClip, lastHash, seenHashes, ppc, pcur, rcur, inbound,
                   histVars, ctlVars>>
    /\ conn' = Forget(Close(conn, c), RefSet')

(***************************************************************************)
(* handleInbound, lines 274-288: readLoop returned; the deferred function  *)
(* runs                                                                    *)
(***************************************************************************)
handleInboundExit(n, c) ==
    /\ ReaderReturns(n, c)
    /\ inmu[n] = "-"
    /\ conn[c].dialer # n
    /\ wire' = [wire EXCEPT ![<<c, n>>] = <<>>]
    /\ inbound' = [inbound EXCEPT ![n] =
                     [a \in (DOMAIN @) \ {conn[c].raddr} |-> @[a]]]
    /\ rpc' = [rpc EXCEPT ![<<n, c>>] = "none"]
    /\ UNCHANGED <<osClip, lastHash, seenHashes, ppc, pcur, rcur, pg,
                   histVars, ctlVars>>
    /\ conn' = Forget(Close(conn, c), RefSet')

(***************************************************************************)
(* Remote peers that are not nodes of the model send frames: well-formed   *)
(* ones, and a header that announces one byte more than the limit,         *)
(* followed by the first byte of its payload.                              *)
(***************************************************************************)
OversizeFrame(type) == <<type>> \o PutUint32(maxMessageSize + 1) \o <<0>>

EnvFrames ==
    { EncodeFrame(x) : x \in UserContents }
        \cup { OversizeFrame(t) : t \in {TypeText, TypeImage} }

\* the remote end of c writes frame f.  On an accepted connection the first
\* byte of the stream is the one acceptLoop has read, so what follows it on
\* the wire is the rest of a frame that starts with that byte.
EnvSend(n, c, f) ==
    /\ PeerOf(n, c) = "env"
    /\ conn[c].st = "open"
    /\ conn[c].far = "up"
    /\ rpc[<<n, c>>] # "none"
    /\ Len(wire[<<c, n>>]) < MaxWire
    /\ LET pending == conn[c].prefix # <<>> /\ wire[<<c, n>>] = <<>>
       IN  /\ pending => f[1] = conn[c].prefix[1]
           /\ wire' = [wire EXCEPT ![<<c, n>>] =
                         Append(@, [bytes |-> IF pending THEN Tail(f) ELSE f, chg |-> 0])]
    /\ UNCHANGED <<osClip, lastHash, seenHashes, ppc, pcur, rpc, rcur, meshVars,
                   histVars, ctlVars>>

(***************************************************************************)
(* acceptLoop, lines 188-272                                               *)
(***************************************************************************)
\* NewNode, lines 96-101: crypto is in use when some peer address is noise:
usesCrypto(n) == pg[n].noiseAddrs # {}

\* first bytes a remote can send: the Noise magic or a frame's type byte
FirstBytes == {MagicNoise, TypeText, TypeImage}

\* lines 265-270: register the connection under its address, start its reader
Register(n, c, addr) ==
    /\ inbound' = [inbound EXCEPT ![n] =
                     [a \in (DOMAIN @) \cup {addr} |-> IF a = addr THEN c ELSE @[a]]]
    /\ rpc' = [rpc EXCEPT ![<<n, c>>] = "read"]

\* the sockets of n that came in through its listener
Accepted(n) ==
    { c \in ConnIds : conn[c].peer = n /\ conn[c].st = "open" /\ conn[c].far = "up" }

\* lines 197-207: Accept returns a connection from remote address addr; the
\* remotes hold at most MaxInbound connections to n at a time, and a remote
\* address (host and port) has one live connection at a time
Accept(n, addr) ==
    /\ apc[n] = "accept"
    /\ ~stopped[n]
    /\ Cardinality(Accepted(n)) < MaxInbound
    /\ \A c \in Accepted(n) : conn[c].raddr # addr
    /\ FreeConns # {}
    /\ LET c == NewConn
       IN  /\ conn' = [conn EXCEPT ![c] = [st |-> "open", dialer |-> "env", peer |-> n,
                                           far |-> "up", raddr |-> addr, rej |-> FALSE,
                                           first |-> <<>>, prefix |-> <<>>, via |-> "raw",
                             verified |-> FALSE]]
           /\ acur' = [acur EXCEPT ![n] = [conn |-> c, addr |-> addr, key |-> "-"]]
    /\ apc' = [apc EXCEPT ![n] = "peek"]
    /\ UNCHANGED <<syncVars, pg, inbound, histVars, dialVars, trustVars, made, fails,
                   callVars, lockVars, byteVars, lifeVars, refused>>

\* a dispatch that takes every connection for a plain one
IsNoiseNever(magic) == FALSE

\* line 221: the branch on the first byte
IsNoise(magic) == magic[1] = MagicNoise

\* a node that answers the Noise magic although it holds no identity
RejectNoiseNever(n) == FALSE

\* line 223: if !n.usesCrypto
RejectNoise(n) == ~usesCrypto(n)

\* lines 209-232 and 257-270: the first byte, or no byte within 10 s
AcceptPeek(n) ==
    /\ apc[n] = "peek"
    /\ UNCHANGED <<osClip, lastHash, seenHashes, ppc, pcur, rcur, wire, pg, histVars,
                   dialVars, trustVars, made, fails, callVars, lockVars, byteVars, lifeVars>>
    /\ LET c == acur[n].conn
       IN  \/ /\ apc' = [apc EXCEPT ![n] = "accept"]
              /\ acur' = [acur EXCEPT ![n] = NoAccept]
              /\ UNCHANGED <<inbound, rpc, refused>>
              /\ conn' = Forget(Close(conn, c), RefSet')
           \/ \E b \in FirstBytes :
                LET magic == <<b>>
                    got == [conn EXCEPT ![c].first = magic]
                IN  IF IsNoise(magic)
                    THEN IF RejectNoise(n)
                         THEN /\ apc' = [apc EXCEPT ![n] = "accept"]
                              /\ acur' = [acur EXCEPT ![n] = NoAccept]
                              /\ refused' = [refused EXCEPT ![n] = c]
                              /\ UNCHANGED <<inbound, rpc>>
                              /\ conn' = Forget(Close(got, c), RefSet')
                         ELSE /\ apc' = [apc EXCEPT ![n] = "handshake"]
                              /\ UNCHANGED <<acur, inbound, rpc, refused>>
                              /\ conn' = got
                    ELSE /\ Register(n, c, acur[n].addr)
                         /\ apc' = [apc EXCEPT ![n] = "accept"]
                         /\ acur' = [acur EXCEPT ![n] = NoAccept]
                         /\ UNCHANGED refused
                         /\ conn' = [got EXCEPT ![c].via = "prefixed", ![c].prefix = magic]

\* lines 233-240: HandshakeResponder returns an error or the peer's key
AcceptHandshake(n) ==
    /\ apc[n] = "handshake"
    /\ UNCHANGED <<syncVars, pg, inbound, histVars, dialVars, trustVars,
                   made, fails, callVars, lockVars, byteVars, lifeVars, refused>>
    /\ \/ /\ apc' = [apc EXCEPT ![n] = "accept"]
          /\ acur' = [acur EXCEPT ![n] = NoAccept]
          /\ conn' = Forget(Close(conn, acur[n].conn), RefSet')
       \/ \E peerKey \in Keys :
            /\ apc' = [apc EXCEPT ![n] = "verify"]
            /\ acur' = [acur EXCEPT ![n].key = peerKey]
            /\ conn' = [conn EXCEPT ![acur[n].conn].via = "noise"]

\* lines 243-252 and 265-270, Verify up to its decision
AcceptVerify(n) ==
    /\ apc[n] = "verify"
    /\ UNCHANGED <<osClip, lastHash, seenHashes, ppc, pcur, rcur, wire, pg, histVars,
                   dialVars, trustVars, made, fails, callVars, lockVars, byteVars, lifeVars, refused>>
    /\ LET c == acur[n].conn
           addr == acur[n].addr
           v == Lookup(n, addr, acur[n].key)
           flagged == [conn EXCEPT ![c].rej = Mismatch(n, addr, acur[n].key),
                                   ![c].verified = (v = "ok")]
       IN  /\ IF v # "first" /\ OnMismatch(v) = "keep"
              THEN Register(n, c, addr)
              ELSE UNCHANGED <<inbound, rpc>>
           /\ apc' = [apc EXCEPT ![n] = IF v = "first" THEN "add" ELSE "accept"]
           /\ acur' = IF v = "first" THEN acur ELSE [acur EXCEPT ![n] = NoAccept]
           /\ conn' = IF OnMismatch(v) = "close"
                      THEN Forget(Close(flagged, c), RefSet')
                      ELSE flagged

\* lines 243-252 and 265-270, Verify on first contact: Add
AcceptAdd(n) ==
    /\ apc[n] = "add"
    /\ apc' = [apc EXCEPT ![n] = "accept"]
    /\ acur' = [acur EXCEPT ![n] = NoAccept]
    /\ UNCHANGED <<osClip, lastHash, seenHashes, ppc, pcur, rcur, wire, pg, histVars,
                   dialVars, made, fails, callVars, lockVars, byteVars, lifeVars, refused>>
    /\ LET c == acur[n].conn
           addr == acur[n].addr
       IN  \E saved \in BOOLEAN :
             /\ Add(n, <<addr>>, acur[n].key, saved)
             /\ IF saved
                THEN /\ Register(n, c, addr)
                     /\ conn' = [conn EXCEPT ![c].verified = TRUE]
                ELSE /\ UNCHANGED <<inbound, rpc>>
                     /\ conn' = Forget(Close(conn, c), RefSet')

(***************************************************************************)
(* Stop, lines 169-186, and the places where the tasks notice it           *)
(***************************************************************************)
\* Stop closes stopChan, the listener, the transport of the peer group (the
\* fields of the group stay as they are) and the registered inbound
\* connections
Stop(n) ==
    /\ ~stopped[n]
    /\ stopped' = [stopped EXCEPT ![n] = TRUE]
    /\ conn' = [c \in ConnIds |->
                  IF c \in ({pg[n].conn} \ {NoConn}) \cup InboundConns(n)
                  THEN [conn[c] EXCEPT !.st = "closed"] ELSE conn[c]]
    /\ UNCHANGED <<syncVars, pg, inbound, histVars, dialVars, trustVars, acceptVars,
                   made, fails, callVars, lockVars, byteVars, spc, net>>

\* maintainPeerGroup, lines 294-298: stopChan is closed at the top of the loop
MgrStop(n) ==
    /\ mpc[n] = "loop"
    /\ stopped[n]
    /\ mpc' = [mpc EXCEPT ![n] = "done"]
    /\ UNCHANGED <<syncVars, meshVars, histVars, race, workers, trustVars, acceptVars,
                   made, fails, callVars, lockVars, byteVars, lifeVars>>

\* acceptLoop, lines 192-206: stopChan is closed at the top of the loop, or
\* Accept fails on the closed listener
AcceptStop(n) ==
    /\ apc[n] = "accept"
    /\ stopped[n]
    /\ apc' = [apc EXCEPT ![n] = "done"]
    /\ UNCHANGED <<syncVars, meshVars, histVars, dialVars, trustVars, acur, refused,
                   made, fails, callVars, lockVars, byteVars, lifeVars>>

\* pollClipboard, lines 526-528: the select takes the stopChan case
PollStop(n) ==
    /\ ppc[n] = "tick"
    /\ stopped[n]
    /\ ppc' = [ppc EXCEPT ![n] = "done"]
    /\ UNCHANGED <<osClip, lastHash, seenHashes, pcur, rpc, rcur, wire, meshVars,
                   histVars, ctlVars>>

\* cleanupSeenHashes, lines 622-624: the select takes the stopChan case
SweepStop(n) ==
    /\ spc[n] = "run"
    /\ stopped[n]
    /\ spc' = [spc EXCEPT ![n] = "done"]
    /\ UNCHANGED <<syncVars, meshVars, histVars, dialVars, trustVars, acceptVars,
                   made, fails, callVars, lockVars, byteVars, stopped, net>>

\* Start, line 164: n.wg.Wait() returns: the acceptor, the manager, the
\* poller, the sweeper and every handleOutbound and handleInbound are done
StartReturns(n) ==
    /\ apc[n] = "done"
    /\ mpc[n] = "done"
    /\ ppc[n] = "done"
    /\ spc[n] = "done"
    /\ \A c \in ConnIds : rpc[<<n, c>>] = "none"

(***************************************************************************)
(* Verify called by two tasks of node "A" at once (dial workers and the    *)
(* acceptor share one KnownHosts)                                          *)
(***************************************************************************)
Callers == {"dial", "accept"}
CallAddrs == { <<72, 58, 49>>, <<104, 58, 49>>, <<32, 104, 58, 49>>, <<103, 58, 49>> }
NoCall == [addr |-> <<>>, key |-> "-"]
NoReturn == [addr |-> <<>>, key |-> "-", ret |-> "-"]

\* Verify, lines 153-176, up to its decision
VerifyLookup(p, addr, pubKey) ==
    /\ vpc[p] = "idle"
    /\ LET v == Lookup("A", addr, pubKey)
       IN  /\ vpc' = [vpc EXCEPT ![p] = IF v = "first" THEN "add" ELSE "idle"]
           /\ varg' = [varg EXCEPT ![p] =
                         IF v = "first" THEN [addr |-> addr, key |-> pubKey] ELSE NoCall]
           /\ vret' = [vret EXCEPT ![p] =
                         IF v = "first" THEN NoReturn
                         ELSE [addr |-> normalizeAddr(addr), key |-> pubKey, ret |-> v]]
    /\ UNCHANGED <<syncVars, meshVars, histVars, dialVars, trustVars, acceptVars,
                   made, fails, lifeVars, lockVars, byteVars>>

\* Verify, line 160: return kh.Add([]string{addr}, pubKey)
VerifyAdd(p) ==
    /\ vpc[p] = "add"
    /\ \E saved \in BOOLEAN :
         /\ Add("A", <<varg[p].addr>>, varg[p].key, saved)
         /\ vret' = [vret EXCEPT ![p] =
                       [addr |-> normalizeAddr(varg[p].addr), key |-> varg[p].key,
                        ret |-> IF saved THEN "ok" ELSE "error"]]
    /\ vpc' = [vpc EXCEPT ![p] = "idle"]
    /\ varg' = [varg EXCEPT ![p] = NoCall]
    /\ UNCHANGED <<syncVars, meshVars, histVars, dialVars, acceptVars,
                   made, fails, lifeVars, lockVars, byteVars>>

\* the clock moves on
ClockAdvance(t) ==
    /\ Before(now, t)
    /\ now' = t
    /\ UNCHANGED <<syncVars, meshVars, histVars, dialVars, hosts, khFile, snap, fresh,
                   acceptVars, made, fails, callVars, lifeVars, lockVars, byteVars>>

\* known_hosts files written by hand: aliases with a timestamp and a comment
\* of two words, a comment line and a record without a timestamp, a record
\* whose key does not decode and one with an upper-case address and no
\* timestamp
LineAliases == <<104, 58, 49, 124, 103, 58, 49, 32, 75, 49, 32, 84, 49, 90, 32, 110, 32, 109>>
LineComment == <<35, 32, 99>>
LineUntimed == <<104, 58, 49, 32, 75, 50, 32, 110, 32, 109>>
LineBadKey == <<103, 58, 49, 32, 88, 88>>
LineUpper == <<72, 58, 49, 32, 75, 49>>
SampleFiles == { {LineAliases}, {LineComment, LineUntimed}, {LineBadKey, LineUpper} }

\* the user replaces the known_hosts file of node n
StoreEdit(n, file) ==
    /\ khFile[n] # file
    /\ khFile' = [khFile EXCEPT ![n] = file]
    /\ snap' = [snap EXCEPT ![n] = NoSnap]
    /\ fresh' = [fresh EXCEPT ![n] = FALSE]
    /\ UNCHANGED <<syncVars, meshVars, histVars, dialVars, hosts, now,
                   acceptVars, made, fails, callVars, lifeVars, lockVars, byteVars>>

\* main.go line 83: the program starts again and loads the file; no Verify
\* call of the previous run is left
StoreLoad(n) ==
    /\ \A p \in Callers : vpc[p] = "idle"
    /\ \E m \in LoadKnownHosts(khFile[n], now) :
         hosts' = [hosts EXCEPT ![n] = m]
    /\ fresh' = [fresh EXCEPT ![n] = TRUE]
    /\ UNCHANGED <<syncVars, meshVars, histVars, dialVars, khFile, now, snap,
                   acceptVars, made, fails, callVars, lifeVars, lockVars, byteVars>>

(***************************************************************************)
(* One plain inbound connection, byte by byte: acceptLoop, lines 209-263,  *)
(* and PrefixedConn, src/README.md lines 263-289.  sent is history: the    *)
(* bytes the peer has written; raw holds those the raw socket has not yet  *)
(* handed out; got is history: the bytes the Read calls on the wrapped     *)
(* connection have returned.                                               *)
(***************************************************************************)
NoPrefixed == [ph |-> "peek", sent |-> <<>>, raw |-> <<>>, prefix |-> <<>>, got |-> <<>>]

\* the peer writes one more byte
PeerWrite(b) ==
    /\ Len(prefixed.sent) < MaxStream
    /\ prefixed' = [prefixed EXCEPT !.sent = Append(@, b), !.raw = Append(@, b)]
    /\ UNCHANGED <<syncVars, meshVars, histVars, dialVars, trustVars, acceptVars, made,
                   fails, callVars, lifeVars, lockVars, noise, aerr, big>>

\* lines 209-232 and 257-259: io.ReadFull(rawConn, magic) and the branch on
\* magic[0]; a plain connection is wrapped by NewPrefixedConn(rawConn, magic)
PeekByte ==
    /\ prefixed.ph = "peek"
    /\ prefixed.raw # <<>>
    /\ LET magic == <<Head(prefixed.raw)>>
       IN  prefixed' = IF IsNoise(magic)
                       THEN [prefixed EXCEPT !.raw = Tail(@), !.ph = "noise"]
                       ELSE [prefixed EXCEPT !.raw = Tail(@), !.ph = "wrapped",
                                             !.prefix = magic]
    /\ UNCHANGED <<syncVars, meshVars, histVars, dialVars, trustVars, acceptVars, made,
                   fails, callVars, lifeVars, lockVars, noise, aerr, big>>

\* the builtin copy(b, src) into a buffer of k bytes: the bytes copied
Copied(k, src) == SubSeq(src, 1, Min(k, Len(src)))

\* a Read that hands the prefix out and keeps it
RestKeeps(src, n) == src

\* src[n:]
Rest(src, n) == SubSeq(src, n + 1, Len(src))

\* PrefixedConn.Read(b) with len(b) = k: the prefix first, then the raw
\* socket, whose Read returns at least one and at most k of the bytes that
\* have arrived
PrefixedConnRead(k) ==
    /\ prefixed.ph = "wrapped"
    /\ IF Len(prefixed.prefix) > 0
       THEN LET b == Copied(k, prefixed.prefix)
            IN  prefixed' = [prefixed EXCEPT !.got = @ \o b,
                                             !.prefix = Rest(@, Len(b))]
       ELSE /\ k > 0
            /\ prefixed.raw # <<>>
            /\ \E m \in 1..Min(k, Len(prefixed.raw)) :
                 prefixed' = [prefixed EXCEPT !.got = @ \o Copied(m, prefixed.raw),
                                              !.raw = Rest(@, m)]
    /\ UNCHANGED <<syncVars, meshVars, histVars, dialVars, trustVars, acceptVars, made,
                   fails, callVars, lifeVars, lockVars, noise, aerr, big>>

(***************************************************************************)
(* One Noise connection, src/unnamed/part_001: the initiator "i" (a dial   *)
(* worker in HandshakeInitiator), the responder "r" (acceptLoop and        *)
(* HandshakeResponder), the raw socket in both directions, and the two     *)
(* NoiseConn.  A byte of application data is named by its place in the     *)
(* stream its side writes, a run of bytes by the interval of its places,   *)
(* lo..hi.  q[s] holds what is on the raw socket for side s to read; put   *)
(* is history: what a side has put on the raw socket, in order; saw is     *)
(* history: the handshake messages a side has read and processed; wr is    *)
(* the number of bytes the application of a side has written, got is       *)
(* history: the runs its Read calls have returned, in order, adjacent runs *)
(* joined.                                                                 *)
(***************************************************************************)
MaxMessageSize == 65535
tagSize == 16
maxPlain == MaxMessageSize - tagSize

Sides == {"i", "r"}
Other(s) == IF s = "i" THEN "r" ELSE "i"

Empty == [lo |-> 1, hi |-> 0]
Size(iv) == iv.hi - iv.lo + 1

\* the first n bytes of a run
Take(iv, n) ==
    IF n = 0 \/ Size(iv) = 0 THEN Empty
    ELSE [lo |-> iv.lo, hi |-> iv.lo + Min(n, Size(iv)) - 1]

\* a Read that forgets what did not fit into the buffer
RestOfNothing(iv, n) == Empty

\* lines 169 and 185-187: iv[n:]
RestOf(iv, n) == IF n >= Size(iv) THEN Empty ELSE [lo |-> iv.lo + n, hi |-> iv.hi]

Magic == [kind |-> "magic", no |-> MagicNoise, iv |-> Empty, key |-> "-", nonce |-> 0]
HsFrame(no) == [kind |-> "hs", no |-> no, iv |-> Empty, key |-> "-", nonce |-> 0]

\* cipher.Encrypt of a chunk, in a frame: the ciphertext is the chunk and
\* the tag under the key and the nonce of the CipherState
DataFrame(iv, key, nonce) == [kind |-> "data", no |-> 0, iv |-> iv, key |-> key, nonce |-> nonce]

NoNoise ==
    [pc |-> [s \in Sides |-> IF s = "i" THEN "magic" ELSE "peek"],
     q |-> [s \in Sides |-> <<>>],
     put |-> [s \in Sides |-> <<>>],
     saw |-> [s \in Sides |-> {}],
     cipher |-> [s \in Sides |-> "-"],
     decipher |-> [s \in Sides |-> "-"],
     cn |-> [s \in Sides |-> 0],
     dn |-> [s \in Sides |-> 0],
     readBuf |-> [s \in Sides |-> Empty],
     wr |-> [s \in Sides |-> 0],
     got |-> [s \in Sides |-> <<>>],
     nwr |-> 0,
     nrd |-> 0]

NoiseOthers == <<syncVars, meshVars, histVars, dialVars, trustVars, acceptVars, made,
                 fails, callVars, lifeVars, lockVars, prefixed, aerr, big>>

\* an initiator that sends message 3 without waiting for message 2
InitiatorStepsEager == <<"magic", "msg1", "msg3", "read2", "done">>

\* HandshakeInitiator, lines 40, 61-67, 70-77, 80-86, 88-95, in program order
InitiatorSteps == <<"magic", "msg1", "read2", "msg3", "done">>

\* acceptLoop, lines 210-223, then HandshakeResponder, lines 118-125,
\* 128-134, 137-144, 146-153
ResponderSteps == <<"peek", "read1", "msg2", "read3", "done">>

Steps(s) == IF s = "i" THEN InitiatorSteps ELSE ResponderSteps

After(s, pc) == Steps(s)[(CHOOSE j \in DOMAIN Steps(s) : Steps(s)[j] = pc) + 1]

\* side s puts an item on the raw socket
Put(s, item, label) ==
    [noise EXCEPT !.q[Other(s)] = Append(@, item), !.put[s] = Append(@, label)]

\* line 40: conn.Write([]byte{MagicNoise})
InitiatorMagic ==
    /\ noise.pc["i"] = "magic"
    /\ noise' = [Put("i", Magic, "magic") EXCEPT !.pc["i"] = After("i", "magic")]
    /\ UNCHANGED NoiseOthers

\* lines 61-67, 80-86 and 128-134: hs.WriteMessage and writeFrame of message
\* no; with message 3 the initiator gets its CipherStates: cipher is the
\* first, decipher the second
HandshakeWrite(s, no) ==
    LET pc == IF no = 1 THEN "msg1" ELSE IF no = 2 THEN "msg2" ELSE "msg3"
        label == IF no = 1 THEN "hs1" ELSE IF no = 2 THEN "hs2" ELSE "hs3"
    IN  /\ noise.pc[s] = pc
        /\ noise' = [Put(s, HsFrame(no), label) EXCEPT
                        !.pc[s] = After(s, pc),
                        !.cipher[s] = IF no = 3 THEN "cs1" ELSE @,
                        !.decipher[s] = IF no = 3 THEN "cs2" ELSE @]
        /\ UNCHANGED NoiseOthers

\* lines 70-77, 118-125 and 137-144: readFrame and hs.ReadMessage of message
\* no; anything else on the socket is an error.  With message 3 the
\* responder gets its CipherStates: decipher is the first, cipher the second
HandshakeRead(s, no) ==
    LET pc == IF no = 1 THEN "read1" ELSE IF no = 2 THEN "read2" ELSE "read3"
    IN  /\ noise.pc[s] = pc
        /\ noise.q[s] # <<>>
        /\ noise' = IF Head(noise.q[s]) = HsFrame(no)
                    THEN [noise EXCEPT !.q[s] = Tail(@),
                                       !.saw[s] = @ \cup {no},
                                       !.pc[s] = After(s, pc),
                                       !.decipher[s] = IF no = 3 THEN "cs1" ELSE @,
                                       !.cipher[s] = IF no = 3 THEN "cs2" ELSE @]
                    ELSE [noise EXCEPT !.q[s] = Tail(@), !.pc[s] = "err"]
        /\ UNCHANGED NoiseOthers

\* acceptLoop, lines 210-223: the first byte is the Noise magic
ResponderPeek ==
    /\ noise.pc["r"] = "peek"
    /\ noise.q["r"] # <<>>
    /\ noise' = IF Head(noise.q["r"]) = Magic
                THEN [noise EXCEPT !.q["r"] = Tail(@), !.pc["r"] = After("r", "peek")]
                ELSE [noise EXCEPT !.q["r"] = Tail(@), !.pc["r"] = "err"]
    /\ UNCHANGED NoiseOthers

\* lines 199-206: the chunks of b, each of at most maxPlain bytes
RECURSIVE Chunks(_)
Chunks(b) ==
    IF Size(b) = 0 THEN <<>>
    ELSE <<Take(b, maxPlain)>> \o Chunks(RestOf(b, maxPlain))

\* lines 255-257: writeFrame refuses a frame of more than MaxMessageSize bytes
FrameFits(chunk) == ~(Size(chunk) + tagSize > MaxMessageSize)

\* the chunks of b that Write sends: those before the first writeFrame error
RECURSIVE Sendable(_)
Sendable(chunks) ==
    IF chunks = <<>> \/ ~FrameFits(Head(chunks)) THEN <<>>
    ELSE <<Head(chunks)>> \o Sendable(Tail(chunks))

RECURSIVE Total(_)
Total(chunks) == IF chunks = <<>> THEN 0 ELSE Size(Head(chunks)) + Total(Tail(chunks))

\* NoiseConn.Write(b), lines 193-221, of the next size bytes of the stream of
\* side s, on the NoiseConn its handshake returned
NoiseConnWrite(s, size) ==
    /\ noise.pc[s] = "done"
    /\ noise.nwr < MaxWrites
    /\ LET b == [lo |-> noise.wr[s] + 1, hi |-> noise.wr[s] + size]
           sent == Sendable(Chunks(b))
           frames == [j \in DOMAIN sent |->
                        DataFrame(sent[j], noise.cipher[s], noise.cn[s] + j - 1)]
       IN  noise' = [noise EXCEPT !.q[Other(s)] = @ \o frames,
                                  !.put[s] = @ \o [j \in DOMAIN sent |-> "data"],
                                  !.cn[s] = @ + Len(sent),
                                  !.wr[s] = @ + Total(sent),
                                  !.nwr = @ + 1]
    /\ UNCHANGED NoiseOthers

\* the runs returned so far and one more
Returned(got, iv) ==
    IF Size(iv) = 0 THEN got
    ELSE IF got # <<>> /\ got[Len(got)].hi + 1 = iv.lo
    THEN [got EXCEPT ![Len(got)].hi = iv.hi]
    ELSE Append(got, iv)

\* lines 179-182: decipher.Decrypt accepts the frame that was encrypted
\* under its key with its next nonce
Decrypts(s, frame) ==
    frame.kind = "data" /\ frame.key = noise.decipher[s] /\ frame.nonce = noise.dn[s]

\* NoiseConn.Read(b), lines 162-190, with len(b) = k on side s
NoiseConnRead(s, k) ==
    /\ noise.pc[s] = "done"
    /\ noise.nrd < MaxReads
    /\ IF Size(noise.readBuf[s]) > 0
       THEN noise' = [noise EXCEPT !.got[s] = Returned(@, Take(noise.readBuf[s], k)),
                                   !.readBuf[s] = RestOf(@, k),
                                   !.nrd = @ + 1]
       ELSE /\ noise.q[s] # <<>>
            /\ LET frame == Head(noise.q[s])
               IN  noise' = IF Decrypts(s, frame)
                            THEN [noise EXCEPT !.q[s] = Tail(@),
                                               !.dn[s] = @ + 1,
                                               !.got[s] = Returned(@, Take(frame.iv, k)),
                                               !.readBuf[s] = RestOf(frame.iv, k),
                                               !.nrd = @ + 1]
                            ELSE [noise EXCEPT !.q[s] = Tail(@), !.pc[s] = "err"]
    /\ UNCHANGED NoiseOthers

(***************************************************************************)
(* The length of a frame.  A content is given by its kind and the number   *)
(* of its bytes alone, so that it can be as long as a clipboard allows;    *)
(* the lengths of the model are below 2^31, where uint32(len) is len.      *)
(***************************************************************************)
ClipLengths == LengthSamples \cup {maxMessageSize + 1, 2 * maxMessageSize}

NoBig == [ph |-> "clip", type |-> TypeText, len |-> 0, hdr |-> <<>>, n |-> 0]

BigOthers == <<syncVars, meshVars, histVars, dialVars, trustVars, acceptVars, made,
               fails, callVars, lifeVars, lockVars, prefixed, noise, aerr>>

\* the user copies a text or an image of len bytes
CopyAny(type, len) ==
    /\ big.ph # "sent"
    /\ big.n < MaxChanges
    /\ <<type, len>> # <<big.type, big.len>>
    /\ big' = [ph |-> "clip", type |-> type, len |-> len, hdr |-> <<>>, n |-> big.n + 1]
    /\ UNCHANGED BigOthers

\* pollClipboard, lines 530-555, and broadcast, lines 561-563: the new
\* content is read and, whatever its length, passed to broadcast, which
\* writes its header: msg[0] = byte(content.Type),
\* PutUint32(msg[1:], uint32(len(content.Data)))
BroadcastHeader ==
    /\ big.ph = "clip"
    /\ big.n > 0
    /\ big' = [big EXCEPT !.ph = "sent", !.hdr = <<big.type>> \o PutUint32(big.len)]
    /\ UNCHANGED BigOthers

\* readLoop, lines 464-479, of a peer: the header, its length, the limit
ReadHeader ==
    /\ big.ph = "sent"
    /\ big' = [big EXCEPT !.ph = IF TooLarge(FrameLength(big.hdr))
                                 THEN "rejected" ELSE "accepted"]
    /\ UNCHANGED BigOthers

CtlInit ==
    /\ big = NoBig
    /\ aerr = [read |-> 0, write |-> 0]
    /\ prefixed = NoPrefixed
    /\ noise = NoNoise
    /\ mpc = [n \in Nodes |-> "loop"]
    /\ race = [n \in Nodes |-> NoRace]
    /\ workers = [n \in Nodes |-> <<>>]
    /\ hosts = [n \in Nodes |-> EmptyMap]
    /\ khFile = [n \in Nodes |-> {}]
    /\ now = StartTime
    /\ snap = [n \in Nodes |-> NoSnap]
    /\ fresh = [n \in Nodes |-> FALSE]
    /\ apc = [n \in Nodes |-> "accept"]
    /\ acur = [n \in Nodes |-> NoAccept]
    /\ refused = [n \in Nodes |-> NoConn]
    /\ made = [n \in Nodes |-> {}]
    /\ fails = [n \in Nodes |-> 0]
    /\ vpc = [p \in Callers |-> "idle"]
    /\ varg = [p \in Callers |-> NoCall]
    /\ vret = [p \in Callers |-> NoReturn]
    /\ stopped = [n \in Nodes |-> FALSE]
    /\ spc = [n \in Nodes |-> "run"]
    /\ net = [n \in Nodes |-> "any"]
    /\ bpc = [n \in Nodes |-> "idle"]
    /\ pgmu = [n \in Nodes |-> "-"]
    /\ inmu = [n \in Nodes |-> "-"]

(***************************************************************************)
(* Two-node meshes.  Both pollers have already seen the initial, empty     *)
(* clipboard and the dedup caches have been swept.                         *)
(*   MeshInit(FALSE): A dials B (conn 1); B has no configured peer.        *)
(*   MeshInit(TRUE):  A dials B (conn 1) and B dials A (conn 2).           *)
(***************************************************************************)
AddrA == <<97, 58, 49>>
AddrB == <<98, 58, 49>>
RemoteOfA == <<97, 58, 53>>
RemoteOfB == <<98, 58, 53>>

EmptyClip == [type |-> TypeText, data |-> <<>>, chg |-> 0, by |-> "user"]

\* the mesh with clipA on the clipboard of "A" and last as every
\* Clipboard.lastHash
MeshFrom(both, clipA, last) ==
    /\ osClip = [n \in Nodes |-> IF n = "A" THEN clipA ELSE EmptyClip]
    /\ lastHash = [n \in Nodes |-> last]
    /\ seenHashes = [n \in Nodes |-> EmptyMap]
    /\ ppc = [n \in Nodes |-> "tick"]
    /\ pcur = [n \in Nodes |-> NoContent]
    /\ rpc = [k \in ReaderKeys |->
                IF k[2] = 1 \/ (both /\ k[2] = 2) THEN "read" ELSE "none"]
    /\ rcur = [k \in ReaderKeys |-> NoContent]
    /\ wire = [k \in WireKeys |-> <<>>]
    /\ pg = [n \in Nodes |->
               [conn |-> IF n = "A" THEN 1 ELSE IF both THEN 2 ELSE NoConn,
                connected |-> (n = "A" \/ both),
                activeAddr |-> IF n = "A" THEN AddrB ELSE IF both THEN AddrA ELSE <<>>,
                encrypted |-> FALSE, backoff |-> initialBackoff,
                sinceTry |-> AgeCap,
                addrs |-> IF n = "A" THEN <<AddrB>> ELSE IF both THEN <<AddrA>> ELSE <<>>,
                noiseAddrs |-> {}]]
    /\ inbound = [n \in Nodes |->
                    IF n = "B" THEN (RemoteOfA :> 1)
                    ELSE IF both THEN (RemoteOfB :> 2) ELSE EmptyMap]
    /\ conn = [c \in ConnIds |->
                 IF c = 1 THEN [st |-> "open", dialer |-> "A", peer |-> "B", far |-> "up",
                       raddr |-> RemoteOfA, rej |-> FALSE, first |-> <<>>,
                       prefix |-> <<>>, via |-> "raw",
                             verified |-> FALSE]
                 ELSE IF both /\ c = 2
                      THEN [st |-> "open", dialer |-> "B", peer |-> "A", far |-> "up",
                            raddr |-> RemoteOfB, rej |-> FALSE,
                            first |-> <<>>, prefix |-> <<>>, via |-> "raw",
                             verified |-> FALSE]
                      ELSE NoSocket]
    /\ nchg = 0
    /\ detected = {}
    /\ wlog = [n \in Nodes |-> {}]
    /\ wrAge = [n \in Nodes |-> EmptyMap]
    /\ wrote = [n \in Nodes |-> {}]
    /\ CtlInit

MeshInit(both) == MeshFrom(both, EmptyClip, hashData(<<>>))

PollerStep(n) ==
    \/ PollRead(n)
    \/ PollHasChanged(n)
    \/ PollDedup(n)
    \/ PollBroadcast(n)

ReaderStep(n, c) ==
    \/ ReaderRecv(n, c)
    \/ ReaderMark(n, c)
    \/ ReaderWrite(n, c)

(***************************************************************************)
(* SyncSpec: one connection, up to MaxChanges user changes, all within one *)
(* dedup window (no time passes).                                          *)
(***************************************************************************)
SyncInit == MeshInit(FALSE)

SyncNext ==
    \/ \E n \in Nodes : UserSet(n, MaxChanges)
    \/ \E n \in Nodes : PollerStep(n)
    \/ \E n \in Nodes, c \in ConnIds : ReaderStep(n, c)

SyncSpec == SyncInit /\ [][SyncNext]_vars

(***************************************************************************)
(* DualSpec: both nodes dial each other, a single user change, no time     *)
(* passes.                                                                 *)
(***************************************************************************)
DualInit == MeshInit(TRUE)

DualNext ==
    \/ \E n \in Nodes : UserSet(n, 1)
    \/ \E n \in Nodes : PollerStep(n)
    \/ \E n \in Nodes, c \in ConnIds : ReaderStep(n, c)

DualSpec == DualInit /\ [][DualNext]_vars

(***************************************************************************)
(* EchoSpec: one connection, a single user change, time passes and the     *)
(* sweeper runs.  FairEchoSpec: every poller keeps ticking and every       *)
(* reader keeps reading.                                                   *)
(***************************************************************************)
EchoInit == MeshInit(FALSE)

EchoNext ==
    \/ \E n \in Nodes : UserSet(n, 1)
    \/ \E n \in Nodes : PollerStep(n)
    \/ \E n \in Nodes, c \in ConnIds : ReaderStep(n, c)
    \/ \E n \in Nodes : cleanupSeenHashes(n)
    \/ Tick(TickStep)

EchoSpec == EchoInit /\ [][EchoNext]_vars

FairEchoSpec ==
    /\ EchoSpec
    /\ \A n \in Nodes : WF_vars(PollerStep(n))
    /\ \A n \in Nodes, c \in ConnIds : WF_vars(ReaderStep(n, c))

(***************************************************************************)
(* A single node "A" whose one peer group has a plain and a Noise address  *)
(* ("l:1|noise:W:1"); the peers are the environment.  Nothing is connected *)
(* yet, lastTry is the zero time.                                          *)
(***************************************************************************)
AddrLan == <<108, 58, 49>>
AddrWan == <<87, 58, 49>>
RemoteEnv == <<101, 58, 53>>
LocalNodes == {"A"}

SoloInit(addrs, noiseAddrs) ==
    /\ osClip = [n \in Nodes |->
                   [type |-> TypeText, data |-> <<>>, chg |-> 0, by |-> "user"]]
    /\ lastHash = [n \in Nodes |-> hashData(<<>>)]
    /\ seenHashes = [n \in Nodes |-> EmptyMap]
    /\ ppc = [n \in Nodes |-> "tick"]
    /\ pcur = [n \in Nodes |-> NoContent]
    /\ rpc = [k \in ReaderKeys |-> "none"]
    /\ rcur = [k \in ReaderKeys |-> NoContent]
    /\ wire = [k \in WireKeys |-> <<>>]
    /\ pg = [n \in Nodes |->
               [conn |-> NoConn, connected |-> FALSE, activeAddr |-> <<>>,
                encrypted |-> FALSE, backoff |-> initialBackoff, sinceTry |-> AgeCap,
                addrs |-> IF n \in LocalNodes THEN addrs ELSE <<>>,
                noiseAddrs |-> IF n \in LocalNodes THEN noiseAddrs ELSE {}]]
    /\ inbound = [n \in Nodes |-> EmptyMap]
    /\ conn = [c \in ConnIds |-> NoSocket]
    /\ nchg = 0
    /\ detected = {}
    /\ wlog = [n \in Nodes |-> {}]
    /\ wrAge = [n \in Nodes |-> EmptyMap]
    /\ wrote = [n \in Nodes |-> {}]
    /\ CtlInit

ManagerStep(n) ==
    \/ MgrDial(n)
    \/ Collect(n)
    \/ DialReturn(n)

WorkerStep(n, k) ==
    \/ WDial(n, k)
    \/ WHandshake(n, k)
    \/ WVerify(n, k)
    \/ WAdd(n, k)

AcceptStep(n) ==
    \/ \E addr \in {RemoteEnv} : Accept(n, addr)
    \/ AcceptPeek(n)
    \/ AcceptHandshake(n)
    \/ AcceptVerify(n)
    \/ AcceptAdd(n)

(***************************************************************************)
(* DialSpec: the outbound side of node "A": manager, dial race, outbound   *)
(* readers, one user change to broadcast, peers that go away, time.        *)
(***************************************************************************)
DialInit == SoloInit(<<AddrLan, AddrWan>>, {AddrWan})

DialNext ==
    \/ \E n \in LocalNodes : ManagerStep(n)
    \/ \E n \in LocalNodes : \E k \in DOMAIN workers[n] : WorkerStep(n, k)
    \/ \E n \in LocalNodes, c \in ConnIds : handleOutboundExit(n, c)
    \/ Tick(TickStep)

DialSpec == DialInit /\ [][DialNext]_vars

(***************************************************************************)
(* RedialSpec: node "A" with a single plain address ("l:1") and a user who *)
(* changes the clipboard once: connect, broadcast, lose the peer,          *)
(* reconnect.                                                              *)
(***************************************************************************)
RedialInit == SoloInit(<<AddrLan>>, {})

RedialNext ==
    \/ \E n \in LocalNodes : UserSet(n, 1)
    \/ \E n \in LocalNodes : PollerStep(n)
    \/ \E n \in LocalNodes : ManagerStep(n)
    \/ \E n \in LocalNodes : \E k \in DOMAIN workers[n] : WDial(n, k)
    \/ \E n \in LocalNodes, c \in ConnIds : handleOutboundExit(n, c)
    \/ \E c \in ConnIds : FarGone(c)
    \/ \E n \in LocalNodes : cleanupSeenHashes(n)
    \/ Tick(TickStep)

RedialSpec == RedialInit /\ [][RedialNext]_vars

(***************************************************************************)
(* AuthSpec: both sides of node "A" that authenticate peers: the dial race *)
(* and the acceptor, with their readers, and time.                         *)
(***************************************************************************)
AuthInit == SoloInit(<<AddrWan>>, {AddrWan})

AuthNext ==
    \/ \E n \in LocalNodes : ManagerStep(n)
    \/ \E n \in LocalNodes : \E k \in DOMAIN workers[n] : WorkerStep(n, k)
    \/ \E n \in LocalNodes : AcceptStep(n)
    \/ \E n \in LocalNodes, c \in ConnIds : handleOutboundExit(n, c)
    \/ \E n \in LocalNodes, c \in ConnIds : handleInboundExit(n, c)
    \/ Tick(TickStep)

AuthSpec == AuthInit /\ [][AuthNext]_vars

(***************************************************************************)
(* CodecSpec: the frame codec.  Node "A" has just been started with a      *)
(* payload of up to MaxPayload bytes on its clipboard (Clipboard.lastHash  *)
(* is still the empty string); its poller encodes the payload in broadcast *)
(* and the reader of "B" decodes the frame.                                *)
(***************************************************************************)
RECURSIVE Payloads(_)
Payloads(len) ==
    IF len = 0 THEN {<<>>}
    ELSE Payloads(len - 1) \cup
            { Append(p, b) : p \in { q \in Payloads(len - 1) : Len(q) = len - 1 },
                             b \in PayloadBytes }

CodecContents ==
    { [type |-> t, data |-> p, chg |-> 0, by |-> "user"] :
          t \in {TypeText, TypeImage}, p \in Payloads(MaxPayload) }

CodecInit == \E x \in CodecContents : MeshFrom(FALSE, x, NoHash)

CodecNext ==
    \/ PollerStep("A")
    \/ ReaderStep("B", 1)

CodecSpec == CodecInit /\ [][CodecNext]_vars

(***************************************************************************)
(* FanoutSpec: node "A" broadcasts to its peer group (socket 1, dialled to *)
(* "B") and to its inbound connection (socket 2, dialled by "B").  The     *)
(* user changes the clipboard of "A"; "B" reads both sockets; either       *)
(* socket can lose its far end, and the readers of "A" can return.         *)
(***************************************************************************)
FanoutInit == MeshInit(TRUE)

FanoutNext ==
    \/ UserSet("A", MaxChanges)
    \/ PollerStep("A")
    \/ \E c \in ConnIds : ReaderStep("B", c)
    \/ \E c \in ConnIds : FarGone(c)
    \/ \E c \in ConnIds : handleOutboundExit("A", c)
    \/ \E c \in ConnIds : handleInboundExit("A", c)

FanoutSpec == FanoutInit /\ [][FanoutNext]_vars

(***************************************************************************)
(* StopSpec: node "A" with the peer group "l:1|W:1" (two plain addresses), *)
(* all its tasks, and Stop.  Every task takes its next step when it can:   *)
(* DialTimeout returns within dialTimeout, the acceptor's first read within *)
(* its 10 s deadline, a reader's read within its 60 s deadline; a select   *)
(* among ready cases is random, so a task whose stopChan case is ready     *)
(* again and again takes it in the end.                                    *)
(***************************************************************************)
StopInit == SoloInit(<<AddrLan, AddrWan>>, {})

StopNext ==
    \/ \E n \in LocalNodes : ManagerStep(n)
    \/ \E n \in LocalNodes : \E k \in DOMAIN workers[n] : WDial(n, k)
    \/ \E n \in LocalNodes : \E addr \in {RemoteEnv} : Accept(n, addr)
    \/ \E n \in LocalNodes : AcceptPeek(n)
    \/ \E n \in LocalNodes : PollRead(n)
    \/ \E n \in LocalNodes : PollHasChanged(n)
    \/ \E n \in LocalNodes : \E c \in ConnIds : handleOutboundExit(n, c)
    \/ \E n \in LocalNodes : \E c \in ConnIds : handleInboundExit(n, c)
    \/ \E n \in LocalNodes : Stop(n)
    \/ \E n \in LocalNodes : MgrStop(n)
    \/ \E n \in LocalNodes : AcceptStop(n)
    \/ \E n \in LocalNodes : PollStop(n)
    \/ \E n \in LocalNodes : SweepStop(n)

StopFairness ==
    \A n \in LocalNodes :
        /\ WF_vars(ManagerStep(n) \/ MgrStop(n))
        /\ \A k \in 1..2 : WF_vars(WDial(n, k))
        /\ WF_vars(AcceptPeek(n) \/ AcceptStop(n))
        /\ WF_vars(PollHasChanged(n))
        /\ SF_vars(PollStop(n))
        /\ SF_vars(SweepStop(n))
        /\ \A c \in ConnIds :
              WF_vars(handleOutboundExit(n, c) \/ handleInboundExit(n, c))

StopSpec == StopInit /\ [][StopNext]_vars /\ StopFairness

(***************************************************************************)
(* ReconnSpec: node "A" with the peer group "l:1|W:1", its manager, dial   *)
(* workers and outbound readers; the peer goes away once and comes back    *)
(* for good.  Every task takes its next step when it can, a reader whose   *)
(* far end is gone gets its read error, and time passes.                   *)
(***************************************************************************)
ReconnInit == SoloInit(<<AddrLan, AddrWan>>, {})

ReconnNext ==
    \/ \E n \in LocalNodes : ManagerStep(n)
    \/ \E n \in LocalNodes : \E k \in DOMAIN workers[n] : WDial(n, k)
    \/ \E n \in LocalNodes : \E c \in ConnIds : handleOutboundExit(n, c)
    \/ \E n \in LocalNodes : PeerDown(n)
    \/ \E n \in LocalNodes : PeerUp(n)
    \/ Tick(TickStep)

ReconnFairness ==
    /\ WF_vars(Tick(TickStep))
    /\ \A n \in LocalNodes :
          /\ WF_vars(ManagerStep(n))
          /\ \A k \in 1..2 : WF_vars(WDial(n, k))
          /\ \A c \in ConnIds :
                WF_vars(conn[c].far = "gone" /\ handleOutboundExit(n, c))

ReconnSpec == ReconnInit /\ [][ReconnNext]_vars /\ ReconnFairness

(***************************************************************************)
(* GroupSpec: everything that mutates the peer group of node "A" (group    *)
(* "l:1"): the manager, the exit of an outbound reader, broadcast, Stop.   *)
(***************************************************************************)
GroupInit == SoloInit(<<AddrLan>>, {})

GroupNext ==
    \/ RedialNext
    \/ \E n \in LocalNodes : Stop(n)
    \/ \E n \in LocalNodes : MgrStop(n)
    \/ \E n \in LocalNodes : PollStop(n)

GroupSpec == GroupInit /\ [][GroupNext]_vars

(***************************************************************************)
(* LockSpec: the mesh of FanoutSpec with the broadcast of "A" running      *)
(* statement by statement; the readers of "A" take the locks of their      *)
(* deferred functions when they return.                                    *)
(***************************************************************************)
LockInit == MeshInit(TRUE)

LockNext ==
    \/ UserSet("A", MaxChanges)
    \/ PollRead("A")
    \/ PollHasChanged("A")
    \/ PollDedup("A")
    \/ BroadcastStep("A")
    \/ \E c \in ConnIds : ReaderStep("B", c)
    \/ \E c \in ConnIds : FarGone(c)
    \/ \E c \in ConnIds : handleOutboundExit("A", c)
    \/ \E c \in ConnIds : handleInboundExit("A", c)

LockSpec == LockInit /\ [][LockNext]_vars

(***************************************************************************)
(* PlainSpec: the inbound side of node "A" without crypto: its only peer   *)
(* address is a plain one.  Remotes connect, send a first byte and frames. *)
(***************************************************************************)
PlainInit == SoloInit(<<AddrLan>>, {})

PlainNext ==
    \/ \E n \in LocalNodes : \E addr \in {RemoteEnv} : Accept(n, addr)
    \/ \E n \in LocalNodes : AcceptPeek(n)
    \/ \E n \in LocalNodes : \E c \in ConnIds : \E f \in EnvFrames : EnvSend(n, c, f)
    \/ \E n \in LocalNodes : \E c \in ConnIds : ReaderStep(n, c)
    \/ \E n \in LocalNodes : \E c \in ConnIds : handleInboundExit(n, c)

PlainSpec == PlainInit /\ [][PlainNext]_vars

(***************************************************************************)
(* InboundSpec: the inbound side of node "A" without crypto: a remote that  *)
(* connects, goes away and connects again from the same address, the       *)
(* readers of the connections, and a user whose changes are broadcast.     *)
(***************************************************************************)
InboundInit == SoloInit(<<AddrLan>>, {})

InboundNext ==
    \/ \E n \in LocalNodes : \E addr \in {RemoteEnv} : Accept(n, addr)
    \/ \E n \in LocalNodes : AcceptPeek(n)
    \/ \E c \in ConnIds : FarGone(c)
    \/ \E n \in LocalNodes : UserSet(n, 1)
    \/ \E n \in LocalNodes : PollerStep(n)
    \/ \E n \in LocalNodes : \E c \in ConnIds : handleInboundExit(n, c)

InboundSpec == InboundInit /\ [][InboundNext]_vars

(***************************************************************************)
(* PrefixSpec: a peer that sends up to MaxStream bytes on a connection to  *)
(* node "A", acceptLoop that takes the first byte, and a reader that reads *)
(* the wrapped connection with buffers of 0 to MaxBuf bytes.               *)
(***************************************************************************)
PrefixInit == SoloInit(<<AddrLan>>, {})

PrefixNext ==
    \/ \E b \in FirstBytes : PeerWrite(b)
    \/ PeekByte
    \/ \E k \in 0..MaxBuf : PrefixedConnRead(k)

PrefixSpec == PrefixInit /\ [][PrefixNext]_vars

(***************************************************************************)
(* NoiseSpec: one encrypted connection from its first byte on: both        *)
(* handshakes, then up to MaxWrites application writes of 1, maxPlain or   *)
(* maxPlain + 1 bytes and up to MaxReads reads with buffers of 0, 1,       *)
(* headerSize or maxPlain bytes.                                           *)
(***************************************************************************)
WriteSizes == {1, maxPlain, maxPlain + 1}
ReadSizes == {0, 1, headerSize, maxPlain}

NoiseInit == SoloInit(<<AddrWan>>, {AddrWan})

NoiseNext ==
    \/ InitiatorMagic
    \/ HandshakeWrite("i", 1)
    \/ HandshakeRead("i", 2)
    \/ HandshakeWrite("i", 3)
    \/ ResponderPeek
    \/ HandshakeRead("r", 1)
    \/ HandshakeWrite("r", 2)
    \/ HandshakeRead("r", 3)
    \/ \E s \in Sides, size \in WriteSizes : NoiseConnWrite(s, size)
    \/ \E s \in Sides, k \in ReadSizes : NoiseConnRead(s, k)

NoiseSpec == NoiseInit /\ [][NoiseNext]_vars

(***************************************************************************)
(* SeenSpec: the dedup cache of node "A", which has no peers, second by    *)
(* second: the user changes the clipboard up to MaxChanges + 1 times, the  *)
(* poller marks the digests and asks isSeenRecently, the sweeper runs.     *)
(***************************************************************************)
SeenInit == SoloInit(<<>>, {})

SeenNext ==
    \/ \E n \in LocalNodes : UserSet(n, MaxChanges + 1)
    \/ \E n \in LocalNodes : PollerStep(n)
    \/ \E n \in LocalNodes : cleanupSeenHashes(n)
    \/ Tick(1)

SeenSpec == SeenInit /\ [][SeenNext]_vars

(***************************************************************************)
(* AdapterSpec: two connected nodes whose clipboard adapters can fail: up  *)
(* to MaxErrs reads and MaxErrs writes return an error.                    *)
(***************************************************************************)
AdapterInit == MeshInit(FALSE)

AdapterNext ==
    \/ \E n \in Nodes : UserSet(n, 1)
    \/ \E n \in Nodes : PollerStep(n)
    \/ \E n \in Nodes : PollReadFails(n)
    \/ \E n \in Nodes, c \in ConnIds : ReaderStep(n, c)
    \/ \E n \in Nodes, c \in ConnIds : ReaderWriteFails(n, c)

AdapterSpec == AdapterInit /\ [][AdapterNext]_vars

(***************************************************************************)
(* AcceptSpec: the acceptor of node "A", which uses crypto, its inbound    *)
(* readers and remotes that connect, send, keep silent or go away.         *)
(* FairAcceptSpec: the acceptor takes every step that does not wait for    *)
(* the remote: the peek returns after 10 s at the latest (lines 212-213),  *)
(* Verify and Add are local, and HandshakeResponder returns once the       *)
(* remote has gone (its reads fail).  While the remote is there,           *)
(* HandshakeResponder returns when the remote has sent its messages: its   *)
(* reads have no deadline (line 214 clears the one of the peek).           *)
(***************************************************************************)
AcceptInit == SoloInit(<<AddrWan>>, {AddrWan})

RemoteGone(n) == acur[n].conn # NoConn /\ conn[acur[n].conn].far = "gone"

AcceptNext ==
    \/ \E n \in LocalNodes : AcceptStep(n)
    \/ \E n \in LocalNodes, c \in ConnIds : handleInboundExit(n, c)
    \/ \E c \in ConnIds : FarGone(c)

AcceptSpec == AcceptInit /\ [][AcceptNext]_vars

AcceptFairness ==
    \A n \in LocalNodes :
        /\ WF_vars(AcceptPeek(n))
        /\ WF_vars(AcceptVerify(n))
        /\ WF_vars(AcceptAdd(n))
        /\ WF_vars(RemoteGone(n) /\ AcceptHandshake(n))

FairAcceptSpec == AcceptSpec /\ AcceptFairness

(***************************************************************************)
(* LengthSpec: the user copies up to MaxChanges contents of the lengths    *)
(* ClipLengths, the poller broadcasts each and the reader of a peer reads  *)
(* its header.                                                             *)
(***************************************************************************)
LengthInit == MeshInit(FALSE)

LengthNext ==
    \/ \E type \in {TypeText, TypeImage}, len \in ClipLengths : CopyAny(type, len)
    \/ BroadcastHeader
    \/ ReadHeader

LengthSpec == LengthInit /\ [][LengthNext]_vars

(***************************************************************************)
(* TrustSpec: two tasks of node "A" call Verify on its KnownHosts.         *)
(***************************************************************************)
TrustInit == SoloInit(<<AddrWan>>, {AddrWan})

TrustNext ==
    \/ \E p \in Callers, addr \in CallAddrs, pubKey \in Keys : VerifyLookup(p, addr, pubKey)
    \/ \E p \in Callers : VerifyAdd(p)

TrustSpec == TrustInit /\ [][TrustNext]_vars

\* The trust store of node A over its life: Verify calls, the clock, the
\* file edited by hand, and restarts that load the file.
StoreInit == SoloInit(<<AddrWan>>, {AddrWan})

\* addresses acceptLoop and the dial workers pass to Verify: a configured
\* address (trimmed, lines 89-101) or the text of a remote address
StoreAddrs == { <<72, 58, 49>>, <<103, 58, 49>> }

StoreNext ==
    \/ \E addr \in StoreAddrs, pubKey \in Keys : VerifyLookup("dial", addr, pubKey)
    \/ VerifyAdd("dial")
    \/ \E t \in Instants : ClockAdvance(t)
    \/ \E file \in SampleFiles : StoreEdit("A", file)
    \/ StoreLoad("A")

StoreSpec == StoreInit /\ [][StoreNext]_vars

TypeOK ==
    /\ \A n \in Nodes : ppc[n] \in {"tick", "changed", "seen", "bcast", "done"}
    /\ \A k \in ReaderKeys : rpc[k] \in {"none", "read", "mark", "write", "exit"}
    /\ nchg \in 0..MaxChanges

(***************************************************************************)
(* Claims                                                                  *)
(***************************************************************************)
\* the content of user change c on node n has been picked up by n's poller
\* and nothing of it is pending any more: no poll tick holds it, no frame
\* carrying it is on a wire, no reader holds it
Settled(c) ==
    /\ c \in detected
    /\ \A n \in Nodes : pcur[n].chg # c
    /\ \A k \in WireKeys : \A i \in 1..Len(wire[k]) : wire[k][i].chg # c
    /\ \A k \in ReaderKeys : rcur[k].chg # c

\* C1: when the user set node n's clipboard to new content X of kind k and
\* the poller of n has picked the change up, then, once nothing of it is
\* pending any more, the adapter of the other node has received
\* write(k, X).
C1_Delivered ==
    \A n \in Nodes : \A c \in 1..MaxChanges :
        (osClip[n].by = "user" /\ osClip[n].chg = c /\ Settled(c))
        => \A m \in Nodes \ {n} :
              [type |-> osClip[n].type, data |-> osClip[n].data, chg |-> c] \in wlog[m]

\* C2: a poll tick that read back content a reader of the same node wrote
\* to the clipboard less than SeenWindow ago never gets to broadcast it.
C2_EchoSuppressed ==
    \A n \in Nodes : ppc[n] = "bcast" => ~pcur[n].echo

\* C3: no reader gets to write a digest to the clipboard adapter that the
\* adapter already received less than SeenWindow ago.
C3_AtMostOneWrite ==
    \A k \in ReaderKeys :
        rpc[k] = "write"
        => ~(/\ rcur[k].hash \in DOMAIN wrAge[k[1]]
             /\ wrAge[k[1]][rcur[k].hash] < SeenWindow)

\* C4: after a single user change the mesh eventually reaches a state from
\* which no node broadcasts and no reader writes to the adapter any more.
C4_NoFeedbackLoop ==
    <>[](/\ \A n \in Nodes : ppc[n] # "bcast"
         /\ \A k \in ReaderKeys : rpc[k] # "write")

\* C5: a dial race in which an address accepted (a winner has been chosen)
\* returns: when every worker of the race has finished and no result is left
\* in the channel, dialAny has received its len(addrs) results, so that it
\* returns the winner and the group becomes Connected.
C5_RaceReturns ==
    \A n \in Nodes :
        (/\ mpc[n] = "collect"
         /\ race[n].winner.conn # NoConn
         /\ AllDone(n)
         /\ race[n].results = <<>>)
        => race[n].i = Len(pg[n].addrs)

\* the sockets of the current dial race of n that are open
OpenMade(n) == { c \in made[n] : conn[c].st = "open" }

\* C6: once every worker of a dial race has finished and dialAny has taken
\* their results, the only socket created by that race that is still open
\* is the winner dialAny returns; every other socket a worker established
\* is closed.
C6_LosersClosed ==
    \A n \in Nodes :
        (mpc[n] = "collect" /\ AllDone(n) /\ race[n].results = <<>>)
        => OpenMade(n) \subseteq {race[n].winner.conn}

\* both addresses were dialed, every worker has finished, every result has
\* been received: the winner is open and the loser is closed
C6_Witness ==
    \E n \in Nodes :
        /\ mpc[n] = "collect" /\ AllDone(n) /\ race[n].results = <<>>
        /\ race[n].winner.conn # NoConn
        /\ conn[race[n].winner.conn].st = "open"
        /\ \E c \in made[n] : c # race[n].winner.conn /\ conn[c].st = "closed"

\* the outbound sockets of n that are open and have a running reader
Live(n) ==
    { c \in ConnIds : conn[c].dialer = n /\ conn[c].st = "open" /\ rpc[<<n, c>>] # "none" }

\* C7: for every peer group at most one outbound transport is open with a
\* running reader, and no dial race of the group runs while such a transport
\* exists.
C7_OneTransport ==
    \A n \in Nodes :
        /\ Cardinality(Live(n)) <= 1
        /\ mpc[n] = "collect" => Live(n) = {}

RECURSIVE Pow2(_)
Pow2(k) == IF k = 0 THEN 1 ELSE 2 * Pow2(k - 1)

\* C8: the backoff of every peer group is min(2^k s, 30 s), k the number of
\* consecutive fully failed dial races since the start or the last
\* successful connection, and is never below 1 s nor above 30 s.
C8_Backoff ==
    \A n \in Nodes :
        /\ pg[n].backoff = Min(Pow2(fails[n]) * initialBackoff, maxBackoff)
        /\ pg[n].backoff >= initialBackoff
        /\ pg[n].backoff <= maxBackoff

\* the cap has been reached and held: 1, 2, 4, 8, 16, 30, 30
C8_Witness ==
    \E n \in Nodes : fails[n] = MaxFails /\ pg[n].backoff = maxBackoff /\ mpc[n] = "loop"

\* C9: a key stored for a normalized address is never changed by any step
\* of any Verify call.
C9_Pinned ==
    [][\A n \in Nodes : \A a \in DOMAIN hosts[n] :
          a \in DOMAIN hosts'[n] /\ hosts'[n][a].PublicKey = hosts[n][a].PublicKey]_vars

\* a socket on which a mismatching key was presented is closed and nothing
\* of the node uses it
Unused(c) ==
    /\ conn[c].st # "open"
    /\ \A n \in Nodes :
          /\ pg[n].conn # c
          /\ c \notin InboundConns(n)
          /\ rpc[<<n, c>>] = "none"
          /\ race[n].winner.conn # c
          /\ \A i \in DOMAIN race[n].results : race[n].results[i].conn # c

\* the step in which worker k of n leaves Verify after a key mismatch
WorkerRejects(n, k) ==
    /\ k \in DOMAIN workers[n]
    /\ workers[n][k].pc = "verify"
    /\ Mismatch(n, pg[n].addrs[k], workers[n][k].key)
    /\ workers'[n] # workers[n]

\* the step in which the acceptor of n leaves Verify after a key mismatch
AcceptorRejects(n) ==
    /\ apc[n] = "verify"
    /\ Mismatch(n, acur[n].addr, acur[n].key)
    /\ apc'[n] # apc[n]

\* C10: on a key mismatch the connection is closed and never used: the dial
\* worker reports a failure, so that the socket never becomes the group's
\* connection; the acceptor neither registers the socket nor starts a reader
\* and goes on accepting; the pinned keys stay as they are.
C10_MismatchClosed ==
    /\ [](\A c \in ConnIds : conn[c].rej => Unused(c))
    /\ [][\A n \in Nodes :
            /\ \A k \in 1..2 :
                 WorkerRejects(n, k)
                 => /\ hosts' = hosts
                    /\ conn'[workers[n][k].conn].st = "closed"
                    /\ race'[n].results = Append(race[n].results, Failure(pg[n].addrs[k]))
                    /\ pg' = pg
            /\ AcceptorRejects(n)
                 => /\ hosts' = hosts
                    /\ conn'[acur[n].conn].st # "open"
                    /\ inbound' = inbound
                    /\ rpc' = rpc
                    /\ apc'[n] = "accept"]_vars

\* a dial worker met a key other than the pinned one: its socket is closed,
\* the race goes on, the group is not connected
C10_Witness ==
    \E n \in Nodes : \E c \in made[n] :
        /\ conn[c].rej
        /\ conn[c].st = "closed"
        /\ ~pg[n].connected
        /\ hosts[n] # EmptyMap

\* the frame decoder of node n reads socket c: c is registered or has a reader
Decoded(n, c) == rpc[<<n, c>>] # "none" \/ c \in InboundConns(n)

\* C11: the first byte of an accepted connection fixes its transport: a
\* connection whose first byte was the Noise magic is never read by the
\* frame decoder as a plain stream (raw or with the byte handed back), only
\* through its NoiseConn, and a connection with any other first byte is
\* read with that byte handed back
C11_ModeFixed ==
    \A n \in Nodes : \A c \in ConnIds :
        (conn[c].peer = n /\ conn[c].first # <<>>) =>
            /\ conn[c].first[1] = MagicNoise => conn[c].via # "prefixed"
            /\ (conn[c].first[1] = MagicNoise /\ Decoded(n, c)) => conn[c].via = "noise"
            /\ (conn[c].first[1] # MagicNoise /\ Decoded(n, c)) => conn[c].via = "prefixed"

\* a connection that began with the magic byte is registered and has a
\* reader, on its NoiseConn
C11_Witness ==
    \E n \in Nodes : \E c \in ConnIds :
        /\ conn[c].peer = n
        /\ conn[c].first = <<MagicNoise>>
        /\ rpc[<<n, c>>] = "read"
        /\ c \in InboundConns(n)
        /\ conn[c].via = "noise"

\* C12: a node without crypto that reads the Noise magic as first byte of an
\* accepted connection closes the connection: the connection is never
\* registered in the inbound map, no reader is started for it and no
\* handshake is attempted on it
C12_NoiseRefused ==
    \A n \in Nodes : \A c \in ConnIds :
        (~usesCrypto(n) /\ conn[c].peer = n /\ conn[c].first = <<MagicNoise>>) =>
            /\ conn[c].st = "closed"
            /\ ~Decoded(n, c)
            /\ acur[n].conn # c

\* the acceptor of a node without crypto has turned a Noise connection away
\* and is back in Accept
C12_Witness ==
    \E n \in Nodes : \E c \in ConnIds :
        /\ ~usesCrypto(n)
        /\ refused[n] = c
        /\ conn[c].peer = n
        /\ conn[c].first = <<MagicNoise>>
        /\ conn[c].st = "closed"
        /\ apc[n] = "accept"

\* the header next on socket c of node n announces more than the limit
OversizeNext(n, c) ==
    /\ rpc[<<n, c>>] = "read"
    /\ wire[<<c, n>>] # <<>>
    /\ FrameLength(Stream(c, Head(wire[<<c, n>>]).bytes)) > maxMessageSize

\* C13: a reader that finds a length above 10 MiB in a header leaves its
\* loop at once: everything after the header is still unread, nothing is
\* marked in the dedup cache and nothing is written to the adapter; the next
\* thing that happens to the reader is that its connection is closed (and,
\* for an inbound one, taken out of the inbound map), again without a mark
\* or a write
C13_OversizeCloses ==
    [][\A n \in Nodes : \A c \in ConnIds :
         LET k == <<n, c>>
             w == wire[<<c, n>>]
             all == Stream(c, Head(w).bytes)
             quiet == /\ seenHashes'[n] = seenHashes[n]
                      /\ wlog'[n] = wlog[n]
                      /\ osClip'[n] = osClip[n]
                      /\ rcur'[k] = rcur[k]
         IN  /\ (OversizeNext(n, c) /\ (rpc'[k] # rpc[k] \/ conn'[c] # conn[c])) =>
                   /\ rpc'[k] = "exit"
                   /\ wire'[<<c, n>>] =
                         <<[Head(w) EXCEPT !.bytes = SubSeq(all, headerSize + 1, Len(all))]>>
                             \o Tail(w)
                   /\ quiet
             /\ (rpc[k] = "exit" /\ rpc'[k] # "exit") =>
                   /\ rpc'[k] = "none"
                   /\ conn'[c].st # "open"
                   /\ c \notin InboundConns(n)'
                   /\ quiet
    ]_vars

\* a reader has left its loop over an oversize header: the payload byte
\* that followed the header is still on the wire, the node has marked and
\* written nothing
C13_Witness ==
    \E n \in Nodes : \E c \in ConnIds :
        /\ rpc[<<n, c>>] = "exit"
        /\ wire[<<c, n>>] # <<>>
        /\ Head(wire[<<c, n>>]).bytes = <<0>>
        /\ conn[c].st = "open"
        /\ seenHashes[n] = EmptyMap
        /\ wlog[n] = {}

\* C14: the frame codec round-trips.  The length field decodes to the
\* length that was encoded, for lengths up to the limit; and in every state
\* of a transfer the frame on the wire is the header followed by the
\* payload, the reader accepts it, and the (kind, payload) the reader of "B"
\* decodes, marks and writes is the (kind, payload) node "A" broadcast.
C14_RoundTrip ==
    LET sent == osClip["A"]
        w == wire[<<1, "B">>]
        k == <<"B", 1>>
    IN  /\ \A len \in LengthSamples :
              /\ Uint32(PutUint32(len)) = len
              /\ ~TooLarge(Uint32(PutUint32(len)))
        /\ \A i \in DOMAIN w :
              /\ Len(w[i].bytes) = headerSize + Len(sent.data)
              /\ FrameType(w[i].bytes) = sent.type
              /\ FrameLength(w[i].bytes) = Len(sent.data)
              /\ FramePayload(w[i].bytes) = sent.data
        /\ rpc[k] # "exit"
        /\ rpc[k] \in {"mark", "write"} =>
              /\ rcur[k].type = sent.type
              /\ rcur[k].data = sent.data
        /\ \A x \in wlog["B"] : x.type = sent.type /\ x.data = sent.data
        /\ osClip["B"].by = "reader" =>
              /\ osClip["B"].type = sent.type
              /\ osClip["B"].data = sent.data

\* an image of MaxPayload bytes, the largest byte value among them, has made
\* the whole trip: broadcast by "A", decoded by "B" and written to its adapter
C14_Witness ==
    /\ osClip["A"].type = TypeImage
    /\ Len(osClip["A"].data) = MaxPayload
    /\ 255 \in { osClip["A"].data[i] : i \in DOMAIN osClip["A"].data }
    /\ osClip["B"].by = "reader"
    /\ osClip["B"].data = osClip["A"].data
    /\ osClip["B"].type = TypeImage

\* C15: a broadcast calls Write with the same frame, the encoding of the
\* content, on the transport of its peer group if the group is Connected
\* and on every connection registered in the inbound map, no more and no
\* less; and on each of them that is open with its far end up the frame is
\* what the peer receives next
C15_AllPeersWritten ==
    [][\A n \in Nodes :
         (ppc[n] = "bcast" /\ ppc'[n] = "tick") =>
             LET frame == EncodeFrame(pcur[n])
                 want == (IF pg[n].connected THEN {pg[n].conn} ELSE {})
                            \cup { inbound[n][a] : a \in DOMAIN inbound[n] }
             IN  /\ wrote'[n] = { <<c, frame>> : c \in want }
                 /\ \A c \in want :
                       (conn[c].st = "open" /\ conn[c].far = "up"
                            /\ PeerOf(n, c) \in Nodes) =>
                           wire'[<<c, PeerOf(n, c)>>] =
                               Append(wire[<<c, PeerOf(n, c)>>],
                                      [bytes |-> frame, chg |-> pcur[n].chg])
    ]_vars

\* one broadcast of "A" has written one frame to its peer group and to its
\* inbound connection, and "B" has the frame on both sockets
C15_Witness ==
    /\ Cardinality(wrote["A"]) = 2
    /\ \E f \in { EncodeFrame(x) : x \in UserContents } :
          /\ wrote["A"] = { <<1, f>>, <<2, f>> }
          /\ wire[<<1, "B">>] # <<>>
          /\ wire[<<2, "B">>] # <<>>
          /\ wire[<<1, "B">>][Len(wire[<<1, "B">>])].bytes = f
          /\ wire[<<2, "B">>][Len(wire[<<2, "B">>])].bytes = f

\* C16: once Stop has been called, every task of the node terminates, so
\* that Start returns
C16_StopTerminates ==
    \A n \in LocalNodes : stopped[n] ~> StartReturns(n)

\* the peer group of n has a working transport
Reconnected(n) ==
    /\ pg[n].connected
    /\ pg[n].conn # NoConn
    /\ conn[pg[n].conn].st = "open"
    /\ conn[pg[n].conn].far = "up"

\* C17: a peer group whose remote end has gone away becomes Disconnected,
\* without a transport; and once the peer can be reached again (and stays
\* reachable) the group gets back to Connected over a working transport
C17_Reconnects ==
    \A n \in LocalNodes :
        /\ (pg[n].connected /\ pg[n].conn # NoConn /\ conn[pg[n].conn].far = "gone")
               ~> (~pg[n].connected /\ pg[n].conn = NoConn)
        /\ (net[n] = "up") ~> Reconnected(n)

\* C18: in every state a peer group holds a transport exactly when it is
\* Connected: conn is non-nil if and only if connected is true
C18_ConnIffConnected ==
    \A n \in Nodes : (pg[n].conn # NoConn) <=> pg[n].connected

\* the user has changed the clipboard, the group is connected, and Stop
\* has closed its transport: the group still holds the transport and is still
\* Connected
C18_Witness ==
    \E n \in LocalNodes :
        /\ stopped[n]
        /\ nchg > 0
        /\ pg[n].connected
        /\ pg[n].conn # NoConn
        /\ conn[pg[n].conn].st = "closed"

\* C19: while a network write of a broadcast is in progress the broadcast
\* holds no lock: neither the mutex of the peer group nor the lock of the
\* inbound map
C19_NoLockDuringWrite ==
    \A n \in Nodes :
        bpc[n] \in {"gwrite", "iwrite"} =>
            (pgmu[n] # "broadcast" /\ inmu[n] # "broadcast")
\* C20: saving the trust store and loading the file again yields the records
\* that were saved: whenever the map in memory has just been loaded from a
\* file that saveLocked wrote, it equals the map that was saved: the same
\* normalized addresses, each mapped to a record with the same aliases, key,
\* first-seen time and comment.
C20_SaveLoad ==
    \A n \in Nodes : (fresh[n] /\ snap[n].ok) => hosts[n] = snap[n].m

\* C21: a dial race of a peer group starts only from a group that is not
\* Connected and whose last attempt started at least the current backoff
\* ago, and the start of the race sets the time of the last attempt to now;
\* while the group is Connected or the backoff has not elapsed, no race
\* starts, the backoff stays as it is and the last attempt is not renewed.
C21_DialGuard ==
    [][\A n \in Nodes :
          /\ (mpc[n] = "loop" /\ mpc'[n] = "collect") =>
                /\ ~pg[n].connected
                /\ pg[n].sinceTry >= pg[n].backoff
                /\ pg'[n].sinceTry = 0
          /\ (mpc[n] = "loop" /\ (pg[n].connected \/ pg[n].sinceTry < pg[n].backoff)) =>
                /\ mpc'[n] # "collect"
                /\ pg'[n].backoff = pg[n].backoff
                /\ pg'[n].sinceTry >= pg[n].sinceTry]_vars

\* a race that started after a failed one: the manager waited for the
\* backoff of 2 s and the race has just set the last attempt to now
C21_Witness ==
    \E n \in Nodes :
        /\ mpc[n] = "collect" /\ fails[n] >= 1
        /\ pg[n].backoff > initialBackoff /\ pg[n].sinceTry = 0

\* the places of the successes among the results dialAny received
Successes(n) == { j \in DOMAIN race[n].got : ~race[n].got[j].err }

FirstSuccess(n) ==
    race[n].got[CHOOSE j \in Successes(n) : \A k \in Successes(n) : j <= k]

\* C22: when dialAny returns it has received one result from every worker;
\* it returns a connection if and only if one of them is a success, the
\* connection, address and encryption flag it returns are those of the
\* first success received, which is what the group is connected with, and
\* it returns no connection only when every worker reported an error.
C22_FirstSuccess ==
    [][\A n \in Nodes :
          (mpc[n] = "collect" /\ mpc'[n] = "loop") =>
             /\ Len(race[n].got) = Len(pg[n].addrs)
             /\ (race[n].winner.conn # NoConn) <=> (Successes(n) # {})
             /\ Successes(n) # {} =>
                   /\ race[n].winner = FirstSuccess(n)
                   /\ pg'[n].connected
                   /\ pg'[n].conn = FirstSuccess(n).conn
                   /\ pg'[n].activeAddr = FirstSuccess(n).addr
                   /\ pg'[n].encrypted = FirstSuccess(n).encrypted
             /\ Successes(n) = {} =>
                   /\ \A j \in DOMAIN race[n].got : race[n].got[j].err
                   /\ ~pg'[n].connected /\ pg'[n].conn = NoConn]_vars

\* dialAny has received two successes and is about to return: the first
\* one is the winner, the second one is another connection
C22_Witness ==
    \E n \in Nodes :
        /\ mpc[n] = "collect" /\ race[n].i = Len(pg[n].addrs)
        /\ Cardinality(Successes(n)) = 2
        /\ race[n].winner = race[n].got[1]
        /\ race[n].got[2].conn # race[n].winner.conn

\* C23: an encrypted transport is in use only after its handshake completed
\* and Verify returned nil for the peer's key: the socket of a group that is
\* Connected via an address marked encrypted, and every socket whose first
\* byte was the Noise magic and that is registered as inbound or has a
\* reader, is wrapped in a NoiseConn and its peer key was verified.
C23_VerifiedFirst ==
    \A n \in Nodes : \A c \in ConnIds :
        /\ (pg[n].connected /\ pg[n].encrypted /\ pg[n].conn = c) =>
              (conn[c].via = "noise" /\ conn[c].verified)
        /\ (rpc[<<n, c>>] # "none" /\ conn[c].dialer = n /\ conn[c].via = "noise") =>
              conn[c].verified
        /\ ((c \in InboundConns(n) \/ rpc[<<n, c>>] # "none")
              /\ conn[c].peer = n /\ conn[c].first = <<MagicNoise>>) =>
              (conn[c].via = "noise" /\ conn[c].verified)

\* both ways at once: the group is Connected over a verified NoiseConn and
\* an inbound Noise connection is registered with a reader
C23_Witness ==
    \E n \in Nodes : \E c, i \in ConnIds :
        /\ pg[n].connected /\ pg[n].encrypted /\ pg[n].conn = c
        /\ conn[c].st = "open" /\ rpc[<<n, c>>] = "read"
        /\ i \in InboundConns(n) /\ conn[i].first = <<MagicNoise>>
        /\ rpc[<<n, i>>] = "read" /\ conn[i].verified

\* C24: a broadcast of a node whose peer group is Connected either leaves
\* the group and its transport as they are (the write succeeded) or closes
\* the transport and leaves the group Disconnected without a transport (the
\* write failed), which is the state the manager dials from; a write on a
\* closed transport always fails, a write on an open transport whose far
\* end is up always succeeds.
C24_WriteFailureDisconnects ==
    [][\A n \in Nodes :
         (ppc[n] = "bcast" /\ ppc'[n] = "tick" /\ pg[n].connected /\ pg[n].conn # NoConn) =>
             LET c == pg[n].conn
                 kept == pg'[n] = pg[n] /\ conn'[c].st = conn[c].st
                 dropped == /\ conn'[c].st = "closed"
                            /\ ~pg'[n].connected
                            /\ pg'[n].conn = NoConn
                            /\ pg'[n].backoff = pg[n].backoff
                            /\ pg'[n].sinceTry = pg[n].sinceTry
             IN  /\ kept \/ dropped
                 /\ conn[c].st # "open" => dropped
                 /\ (conn[c].st = "open" /\ conn[c].far = "up") => kept
    ]_vars

\* a broadcast has failed on the transport of the group: the socket is
\* closed although its reader has not returned and the node was not
\* stopped, and the group is Disconnected without a transport
C24_Witness ==
    \E n \in Nodes : \E c \in ConnIds :
        /\ \E w \in wrote[n] : w[1] = c
        /\ conn[c].dialer = n /\ conn[c].st = "closed"
        /\ rpc[<<n, c>>] = "read" /\ ~stopped[n]
        /\ ~pg[n].connected /\ pg[n].conn = NoConn

\* the connections that came in through the listener of n and have a reader
Reading(n) == { c \in ConnIds : conn[c].peer = n /\ rpc[<<n, c>>] # "none" }

\* C26: the inbound registry of a node holds exactly the accepted
\* connections whose reader was started and has not returned.
C26_RegistryExact ==
    \A n \in Nodes : InboundConns(n) = Reading(n)

\* C25: a broadcast leaves the inbound registry as it is, whether its writes
\* to the inbound connections fail or not, and an address leaves the
\* registry only in the step in which the reader of the connection
\* registered under it returns, which closes that connection.
C25_OnlyOwnReaderRemoves ==
    [][\A n \in Nodes :
         /\ (ppc[n] = "bcast" /\ ppc'[n] = "tick") => inbound'[n] = inbound[n]
         /\ \A a \in DOMAIN inbound[n] :
               a \notin DOMAIN inbound'[n] =>
                   /\ rpc[<<n, inbound[n][a]>>] # "none"
                   /\ rpc'[<<n, inbound[n][a]>>] = "none"
                   /\ conn'[inbound[n][a]].st # "open"
    ]_vars

\* C27: on a plain inbound connection the bytes read through the
\* PrefixedConn so far, followed by what is left of its prefix and by the
\* bytes still in the raw socket, are the bytes the peer sent: whatever the
\* buffer sizes, the reader gets the first byte first and once, then the
\* rest of the stream in order.
C27_PrefixedStream ==
    prefixed.ph = "wrapped" =>
        prefixed.got \o prefixed.prefix \o prefixed.raw = prefixed.sent

\* the reader has read the whole stream of MaxStream bytes, the peeked byte
\* and what came after it
C27_Witness ==
    /\ prefixed.ph = "wrapped"
    /\ Len(prefixed.sent) >= 3
    /\ prefixed.got = prefixed.sent
    /\ prefixed.sent[1] # prefixed.sent[2]

\* the runs of parts, in order, are the places from to to of a stream
RECURSIVE Chain(_, _, _)
Chain(parts, from, to) ==
    IF parts = <<>> THEN from = to + 1
    ELSE /\ Head(parts).lo = from
         /\ Head(parts).hi >= from
         /\ Chain(Tail(parts), Head(parts).hi + 1, to)

\* what side s has still to return: its buffer and the frames on the socket
Pending(s) ==
    (IF Size(noise.readBuf[s]) > 0 THEN <<noise.readBuf[s]>> ELSE <<>>)
        \o [j \in DOMAIN noise.q[s] |-> noise.q[s][j].iv]

\* C28: on an encrypted connection the bytes the reads of one side have
\* returned are the first bytes the other side has written, in order, each
\* once, and no read fails; what the reads have not returned yet is in the
\* read buffer and in the frames on the socket, in order: nothing is lost,
\* duplicated or reordered, whatever the sizes of the writes and of the
\* read buffers.
C28_StreamFidelity ==
    \A s \in Sides :
        noise.pc[s] \in {"done", "err"} =>
            /\ noise.pc[s] = "done"
            /\ Len(noise.got[s]) <= 1
            /\ Chain(noise.got[s] \o Pending(s), 1, noise.wr[Other(s)])

\* a write of more than maxPlain bytes went out in two frames, a read took
\* part of a frame and left the rest in the buffer, and later reads have
\* returned everything that was written
C28_Witness ==
    \E s \in Sides :
        /\ noise.wr[Other(s)] > maxPlain + 1
        /\ noise.nrd = MaxReads
        /\ noise.got[s] = <<[lo |-> 1, hi |-> noise.wr[Other(s)]]>>

\* the places of label in what side s has put on the raw socket
Places(s, label) == { j \in DOMAIN noise.put[s] : noise.put[s][j] = label }

\* C29: on an encrypted outbound connection the first thing the initiator
\* puts on the raw socket is the magic byte and the second is Noise message
\* 1; it puts message 3 on the socket only when it has read and processed
\* message 2; and an application frame is written, by either side, only
\* after the initiator has written message 3 and is read only by a side
\* whose handshake is over: by the responder after it has processed
\* message 3.
C29_HandshakeOrder ==
    LET pi == noise.put["i"]
        data == \E s \in Sides : Places(s, "data") # {}
        read == \E s \in Sides : noise.got[s] # <<>> \/ noise.dn[s] > 0
    IN  /\ pi # <<>> => pi[1] = "magic"
        /\ Places("i", "hs1") \subseteq {2}
        /\ Len(pi) >= 2 => pi[2] = "hs1"
        /\ Places("i", "hs3") # {} => 2 \in noise.saw["i"]
        /\ Places("i", "hs3") \subseteq {3}
        /\ (data \/ read) => Places("i", "hs3") = {3}
        /\ Places("r", "data") # {} => 3 \in noise.saw["r"]
        /\ (noise.got["r"] # <<>> \/ noise.dn["r"] > 0) => 3 \in noise.saw["r"]

\* both handshakes are over and each side has read application data of
\* the other
C29_Witness ==
    /\ Places("i", "hs3") = {3}
    /\ \A s \in Sides : noise.got[s] # <<>> /\ noise.pc[s] = "done"

\* the digests the poller of a node can ask about
UserDigests == { hashData(uc.data) : uc \in UserContents }

\* C30: isSeenRecently(digest) is true if and only if the cache holds an
\* entry for the digest and the entry is at most SeenWindow (5 s) old, an
\* entry of exactly 5 s included.
C30_SeenWithinWindow ==
    \A n \in Nodes, h \in UserDigests :
        isSeenRecently(n, h) <=>
            (h \in DOMAIN seenHashes[n] /\ seenHashes[n][h] <= SeenWindow)

\* C31: a sweep of the dedup cache (a step that takes entries out of the
\* cache of a node) removes exactly the entries that are more than SweepAge
\* (30 s) old and leaves the others as they are; the answer of
\* isSeenRecently is the same after the sweep as before for every digest,
\* and after the sweep no entry is more than 30 s old.
C31_SweepExact ==
    [][\A n \in Nodes :
          LET before == seenHashes[n]
              after == seenHashes'[n]
          IN  DOMAIN after # DOMAIN before /\ DOMAIN after \subseteq DOMAIN before =>
                /\ DOMAIN after = { h \in DOMAIN before : ~(before[h] > SweepAge) }
                /\ \A h \in DOMAIN after : after[h] = before[h]
                /\ \A h \in DOMAIN after : after[h] <= SweepAge
                /\ \A h \in UserDigests : isSeenRecently(n, h)' = isSeenRecently(n, h)
      ]_vars

\* the poller has marked the digests of two changes; a sweep has taken the
\* older mark out and left the other, which is exactly 30 s old
C31_Witness ==
    /\ \E h \in DOMAIN seenHashes["A"] : seenHashes["A"][h] = SweepAge
    /\ \E h \in UserDigests : h \notin DOMAIN seenHashes["A"]
    /\ {1, 2} \subseteq detected
    /\ ppc["A"] = "tick"

\* C32: when the poller of a node has found a digest that differs from
\* Clipboard.lastHash and has no entry in the dedup cache, it marks the
\* digest, makes it lastHash and goes on to broadcast the content in that
\* tick; and, the content of the clipboard being the same ever since (the
\* user changes a clipboard once), a poller that goes on to broadcast has
\* not broadcast that frame before.
C32_PollerSendsOnce ==
    [][\A n \in Nodes :
          (ppc[n] = "seen" /\ ppc'[n] # "seen") =>
              LET h == pcur[n].hash
              IN  /\ h \notin DOMAIN seenHashes[n] =>
                        /\ h \in DOMAIN seenHashes'[n]
                        /\ seenHashes'[n][h] = 0
                        /\ lastHash'[n] = h
                        /\ ppc'[n] = "bcast"
                  /\ ppc'[n] = "bcast" =>
                        \A w \in wrote[n] : w[2] # EncodeFrame(pcur[n])
      ]_vars

\* C33: a reader never takes a frame for marking and writing whose content
\* the poller of its node has marked on the send path (under hashData, line
\* 544) less than SeenWindow ago and has broadcast: such a frame is dropped
\* and causes no write to the clipboard adapter.
C33_OwnBroadcastDropped ==
    [][\A k \in ReaderKeys :
          (rpc[k] = "read" /\ rpc'[k] = "mark") =>
              LET n == k[1]
                  h == hashData(rcur'[k].data)
              IN  ~(/\ h \in DOMAIN seenHashes[n]
                    /\ seenHashes[n][h] < SeenWindow
                    /\ ppc[n] # "bcast")
      ]_vars

\* C34: a step in which a clipboard adapter fails leaves every socket, every
\* peer group and every inbound registry as it is; when it is a read that
\* fails, nothing but the tick is lost: pollers, readers, cache, lastHash
\* and wires are as before; when it is the write of a reader, that reader
\* is back at reading the next frame and no other task has moved.
C34_AdapterFailureKeepsConns ==
    [][aerr' # aerr =>
          /\ conn' = conn /\ pg' = pg /\ inbound' = inbound
          /\ wire' = wire /\ ppc' = ppc /\ pcur' = pcur
          /\ osClip' = osClip /\ lastHash' = lastHash
          /\ aerr'.read # aerr.read => rpc' = rpc /\ seenHashes' = seenHashes
          /\ aerr'.write # aerr.write =>
                \E k \in ReaderKeys :
                    /\ rpc[k] = "write" /\ rpc'[k] = "read"
                    /\ \A j \in ReaderKeys \ {k} : rpc'[j] = rpc[j]
      ]_vars

\* an adapter write has failed in the reader of B and an adapter read in a
\* poller, and the connection is open, B's reader reads and A's group is
\* connected
C34_Witness ==
    /\ aerr.write > 0 /\ aerr.read > 0
    /\ wlog["B"] = {} /\ nchg = 1
    /\ rpc[<<"B", 1>>] = "read"
    /\ conn[1].st = "open" /\ pg["A"].connected /\ pg["A"].conn = 1

\* C35: in the trust store of a node no two different records hold the same
\* public key: the addresses under which a key is trusted all lead to one
\* record.
C35_UniqueKey ==
    \A n \in Nodes : \A a, b \in DOMAIN hosts[n] :
        hosts[n][a].PublicKey = hosts[n][b].PublicKey => hosts[n][a] = hosts[n][b]

\* C36: when the reader of an outbound connection c of node n exits, the
\* group of n becomes disconnected and loses its transport if that transport
\* is c; if the group holds another transport (a later dial installed it),
\* the group keeps it and stays as connected as it was.
C36_ExitClearsOwnTransport ==
    [][\A n \in Nodes, c \in ConnIds :
          (rpc[<<n, c>>] # "none" /\ rpc'[<<n, c>>] = "none" /\ conn[c].dialer = n) =>
              IF pg[n].conn = c
              THEN ~pg'[n].connected /\ pg'[n].conn = NoConn
              ELSE pg'[n].connected = pg[n].connected /\ pg'[n].conn = pg[n].conn
      ]_vars

\* C37: whenever the acceptor of a node is at work on an accepted socket, it
\* is eventually back at accepting the next connection, whatever the remote
\* sends or withholds.
C37_AcceptorReturns ==
    \A n \in LocalNodes : (apc[n] # "accept") ~> (apc[n] = "accept")

\* C38: a step in which a Verify call returns an error (a key mismatch, or
\* first contact whose entry could not be written to the file) leaves the
\* map from addresses to hosts in memory as it was: nothing is trusted in
\* memory for which Verify has not returned nil.
C38_ErrorKeepsMemory ==
    [][\A p \in Callers :
          (vret'[p] # vret[p] /\ vret'[p].ret \notin {"-", "ok"}) => hosts' = hosts
      ]_vars

\* C39: the header of every frame broadcast has written declares the number
\* of bytes of the content, a number that is not above maxMessageSize
\* (10 MiB), and no reader of a peer rejects the frame.
C39_FrameWithinLimit ==
    big.ph \in {"sent", "accepted", "rejected"} =>
        /\ FrameLength(big.hdr) = big.len
        /\ FrameLength(big.hdr) <= maxMessageSize
        /\ big.ph # "rejected"

====
